---- MODULE Spec2Model ----
(***************************************************************************)
(* SlotNVM: a slot store on a byte addressable NVM (SlotNVM.h), together   *)
(* with the RAM mock of the medium that the unit tests use (NVMRAMMock.h). *)
(* The configuration is the TinyNVM_t of the unit tests: 64 bytes of NVM,  *)
(* clusters of 8 bytes, LAST_SLOT = 0, with or without the XOR dummy CRC.  *)
(***************************************************************************)
EXTENDS Integers, Sequences, FiniteSets, TLC

(* ---- bounds of the model ---------------------------------------------- *)
MaxOps  == 3      \* calls in one behaviour, a begin that starts the store aside
MaxCuts == 1      \* power losses in one behaviour
MaxSlot == 2      \* callers use the slots 1..MaxSlot
MaxLen  == 4      \* the longest payload a caller writes
MaxTag  == 2      \* distinct payload contents per length
MaxRnd  == 0      \* RND_FUNC() returns a value in 0..MaxRnd
MaxWear == 5      \* calls in one behaviour that uses the first slot only
MaxFill == 3      \* clusters of an arbitrary medium that are not blank
MaxAge  == 1      \* ages of the clusters of an arbitrary medium: 0..MaxAge
MaxProv == 8      \* PROVISION of the store with reserved space
MaxHeld == 1      \* clusters that hold a slot when that store is constructed
MaxBlank == 2     \* clusters of a filled medium that hold nothing
MaxProbe == 7     \* RND_FUNC() returns a value in 0..MaxProbe on a filled medium
MaxWrite == 257   \* the longest len for which the clusters of a write are counted

(* ---- configuration (template parameters and class constants) ---------- *)
S_SIZE               == 64
CLUSTER_SIZE         == 8
LAST_SLOT            == 0
DEFAULT_VALUE        == 255
S_FIRST_SLOT         == 1
S_START_CLUSTER_FLAG == 32
S_LAST_CLUSTER_FLAG  == 16
S_AGE_SHIFT          == 6

S_CLUSTER_CNT == S_SIZE \div CLUSTER_SIZE

S_LAST_SLOT ==
    IF LAST_SLOT = 0 THEN (IF S_CLUSTER_CNT > 250 THEN 250 ELSE S_CLUSTER_CNT)
    ELSE (IF LAST_SLOT > 250 THEN 250 ELSE LAST_SLOT)

S_AGE_BITS_TO_OLDEST ==
    << 240, 0, 1, 1, 2, 242, 2, 242, 3, 0, 243, 241, 3, 240, 243, 243 >>

Clusters == 0 .. (S_CLUSTER_CNT - 1)
Slots    == S_FIRST_SLOT .. S_LAST_SLOT
Bytes    == 0 .. 255

VARIABLES
    mem,            \* NVMRAMMock::m_memory
    m_initDone,     \* SlotNVM::m_initDone
    m_slotAvail,    \* SlotNVM::m_slotAvail, as the set of slots whose bit is set
    m_usedCluster,  \* SlotNVM::m_usedCluster, as the set of clusters whose bit is set
    crcOn,          \* CRC_FUNC != NULL (fixed at construction)
    provision,      \* PROVISION (fixed at construction)
    last,           \* the last public call: what it was given and what it returned
    intr,           \* the call that the last power loss cut
    written,        \* per slot, the payloads passed to writeSlot so far
    ops,            \* calls so far, a begin that starts the store aside
    cuts            \* power losses so far

vars == << mem, m_initDone, m_slotAvail, m_usedCluster, crcOn, provision,
           last, intr, written, ops, cuts >>

(* ---- configuration that depends on CRC_FUNC and PROVISION ------------- *)
S_USER_DATA_PER_CLUSTER(crc) == CLUSTER_SIZE - 6 + (IF crc THEN 0 ELSE 1)

\* mutant: PROVISION is not rounded to whole clusters
S_PROVISION_NotRounded(crc, prov) == prov

S_PROVISION(crc, prov) ==
    ((prov + S_USER_DATA_PER_CLUSTER(crc) - 1) \div S_USER_DATA_PER_CLUSTER(crc))
        * S_USER_DATA_PER_CLUSTER(crc)

S_END_BYTE(crc) == 160 + (IF crc THEN 1 ELSE 0)

(* ---- bytes ------------------------------------------------------------ *)
RECURSIVE Xor(_, _)
Xor(a, b) ==
    IF a = 0 THEN b
    ELSE IF b = 0 THEN a
    ELSE ((a + b) % 2) + 2 * Xor(a \div 2, b \div 2)

\* the CRC function of the tests
dummyCRC(c, data) == Xor(c, data)

CRC_FUNC(c, data) == dummyCRC(c, data)

\* crc_buf over a sequence of bytes
RECURSIVE crc_buf(_, _)
crc_buf(c, data) ==
    IF data = << >> THEN c
    ELSE crc_buf(CRC_FUNC(c, Head(data)), Tail(data))

AgeOf(flags)  == (flags \div 64) % 4
IsStart(flags) == (flags \div S_START_CLUSTER_FLAG) % 2 = 1
IsLast(flags)  == (flags \div S_LAST_CLUSTER_FLAG) % 2 = 1

Min(S) == CHOOSE x \in S : \A y \in S : x <= y
Max(S) == CHOOSE x \in S : \A y \in S : x >= y

(* ---- the medium: NVMRAMMock ------------------------------------------- *)
\* A store call runs on a record st:
\*   mem, used, avail, init : the medium and the RAM index
\*   crc, prov              : the configuration
\*   wb    : m_writeErrorAfterXbytes, 0 = no power loss armed
\*   lost  : PowerLostException was thrown, the rest of the call is skipped
\*   fail  : a read of the medium returned false, the call returns false
\*   ub    : what an access outside an array of the store does (see begin)
\*   wc    : byte writes that reached the medium during the call

\* NVMRAMMock::write(addr, data)
MockWrite(st, addr, data) ==
    IF st.lost THEN st
    ELSE IF st.wb = 1 THEN [st EXCEPT !.wb = 0, !.lost = TRUE]
    ELSE [st EXCEPT !.mem[addr] = data,
                    !.wb = IF st.wb > 0 THEN st.wb - 1 ELSE 0,
                    !.wc = st.wc + 1]

\* NVMRAMMock::write(addr, data, len): byte by byte
RECURSIVE MockWriteBuf(_, _, _)
MockWriteBuf(st, addr, data) ==
    IF data = << >> THEN st
    ELSE MockWriteBuf(MockWrite(st, addr, Head(data)), addr + 1, Tail(data))

\* NVMRAMMock::read(addr, data, len)
MockReadBuf(m, addr, len) == [i \in 1 .. len |-> m[addr + i - 1]]

(* ---- SlotNVM::clearCluster -------------------------------------------- *)
\* mutant: the byte is written, the bit of the cluster stays set
clearCluster_KeepsBit(st, cluster) ==
    MockWrite(st, cluster * CLUSTER_SIZE, 0)

\* mutant: the bit of the cluster is cleared, the byte is not written
clearCluster_BitOnly(st, cluster) ==
    [st EXCEPT !.used = @ \ {cluster}]

clearCluster(st, cluster) ==
    LET clearClusterBit(w) == IF w.lost THEN w ELSE [w EXCEPT !.used = @ \ {cluster}]
    IN  clearClusterBit(MockWrite(st, cluster * CLUSTER_SIZE, 0))

(* ---- SlotNVM::begin --------------------------------------------------- *)
\* mutant: the end byte is not looked at
Pass1Valid_NoEndByte(m, crc, cluster) ==
    LET cAddr   == cluster * CLUSTER_SIZE
        U       == S_USER_DATA_PER_CLUSTER(crc)
        slot    == m[cAddr]
        flags   == m[cAddr + 1]
        d       == m[cAddr + 3]
        isFirst == IsStart(flags)
        len     == IF isFirst THEN (IF d + 1 > U THEN U ELSE d + 1) ELSE d
    IN  /\ slot >= S_FIRST_SLOT
        /\ slot <= S_LAST_SLOT
        /\ crc => /\ (isFirst \/ d <= U)
                  /\ m[cAddr + CLUSTER_SIZE - 2] =
                        crc_buf(0, MockReadBuf(m, cAddr, 4 + len))

\* mutant: the CRC is not compared
Pass1Valid_NoCRC(m, crc, cluster) ==
    LET cAddr   == cluster * CLUSTER_SIZE
        U       == S_USER_DATA_PER_CLUSTER(crc)
        slot    == m[cAddr]
        flags   == m[cAddr + 1]
        d       == m[cAddr + 3]
        isFirst == IsStart(flags)
    IN  /\ slot >= S_FIRST_SLOT
        /\ slot <= S_LAST_SLOT
        /\ m[cAddr + CLUSTER_SIZE - 1] = S_END_BYTE(crc)
        /\ crc => (isFirst \/ d <= U)

\* pass 1, the body of the loop for one cluster: is it a valid cluster
Pass1Valid(m, crc, cluster) ==
    LET cAddr   == cluster * CLUSTER_SIZE
        U       == S_USER_DATA_PER_CLUSTER(crc)
        slot    == m[cAddr]
        flags   == m[cAddr + 1]
        d       == m[cAddr + 3]
        isFirst == IsStart(flags)
        len     == IF isFirst THEN (IF d + 1 > U THEN U ELSE d + 1) ELSE d
    IN  /\ slot >= S_FIRST_SLOT
        /\ slot <= S_LAST_SLOT
        /\ m[cAddr + CLUSTER_SIZE - 1] = S_END_BYTE(crc)
        /\ crc => /\ (isFirst \/ d <= U)
                  /\ m[cAddr + CLUSTER_SIZE - 2] =
                        crc_buf(0, MockReadBuf(m, cAddr, 4 + len))

\* setClusterBit(validCluster, curCluster) and isClusterBitSet(clusterUsedBySlot,
\* curCluster) index arrays of S_CLUSTER_CNT / 8 bytes with the link byte read
\* from the medium. With curCluster >= S_CLUSTER_CNT both accesses leave the
\* arrays (undefined behaviour); what the build makes of it is one of
\*   "none"     : the write hits no live byte, the bit read is 0
\*   "readSet"  : the write hits no live byte, the bit read is 1
\*   "writeHit" : the write sets bit curCluster % 8 of the neighbouring array
\*                clusterUsedBySlot, the bit read is 0
UBOutcomes == {"none", "readSet", "writeHit"}

\* pass 2, the walk along the chain of one start cluster (the inner while loop);
\* fail: a read returned false, begin returns false
RECURSIVE ChainWalk(_, _, _, _, _, _, _, _, _, _)
ChainWalk(m, U, ub, clusterUsedBySlot, oldes, cAddr, flags, curMaxDataLen, doNotExceetLen, validCluster) ==
    IF IsLast(flags)
    THEN [err |-> FALSE, fail |-> FALSE, clusterUsedBySlot |-> clusterUsedBySlot,
          validCluster |-> validCluster, curMaxDataLen |-> curMaxDataLen]
    ELSE LET curCluster == m[cAddr + 2]
         IN  IF curCluster >= S_CLUSTER_CNT
             THEN [err  |-> TRUE,
                   fail |-> (ub = "readSet"),   \* read(curCluster * CLUSTER_SIZE + 1)
                   clusterUsedBySlot |->
                       IF ub = "writeHit"
                       THEN clusterUsedBySlot \cup {curCluster % 8}
                       ELSE clusterUsedBySlot,
                   validCluster |-> validCluster,
                   curMaxDataLen |-> curMaxDataLen]
             ELSE
             LET valid2 == validCluster \cup {curCluster}
                 cAddr2 == curCluster * CLUSTER_SIZE
                 flags2 == m[cAddr2 + 1]
                 stop(len) == [err |-> TRUE, fail |-> FALSE,
                               clusterUsedBySlot |-> clusterUsedBySlot,
                               validCluster |-> valid2, curMaxDataLen |-> len]
             IN  IF curCluster \notin clusterUsedBySlot THEN stop(curMaxDataLen)
                 ELSE IF AgeOf(flags2) # oldes THEN stop(curMaxDataLen)
                 ELSE IF IsStart(flags2) THEN stop(curMaxDataLen)
                 ELSE IF curMaxDataLen + U >= doNotExceetLen
                 THEN stop(curMaxDataLen + U)
                 ELSE ChainWalk(m, U, ub, clusterUsedBySlot, oldes, cAddr2, flags2,
                                curMaxDataLen + U, doNotExceetLen, valid2)

\* pass 2, the check of one start cluster (one turn of the outer while loop)
CheckStart(m, U, ub, clusterUsedBySlot, oldes, startCluster) ==
    LET cAddr    == startCluster * CLUSTER_SIZE
        flags    == m[cAddr + 1]
        startLen == m[cAddr + 3]
        missing(w) ==
            [err  |-> w.err \/ (w.curMaxDataLen < startLen + 1),
             fail |-> w.fail,
             clusterUsedBySlot |-> w.clusterUsedBySlot,
             validCluster |-> w.validCluster]
    IN  missing(ChainWalk(m, U, ub, clusterUsedBySlot, oldes, cAddr, flags, U,
                          startLen + 1 + U, {startCluster}))

\* firstClusterMask as the number the table is indexed with
RECURSIVE MaskOf(_)
MaskOf(ages) ==
    IF ages = {} THEN 0
    ELSE LET a == Min(ages) IN (2 ^ a) + MaskOf(ages \ {a})

\* mutant: the lowest age is tried first
OldestOf_Lowest(ages) == Min(ages)

\* the age begin tries for a mask of start cluster ages
OldestOf(ages) == S_AGE_BITS_TO_OLDEST[MaskOf(ages) + 1] % 4

\* pass 2, while (!foundValid && (firstClusterMask > 0))
RECURSIVE SelectStart(_, _, _, _, _, _)
SelectStart(m, U, ub, clusterUsedBySlot, firstCluster, ages) ==
    IF ages = {}
    THEN [foundValid |-> FALSE, fail |-> FALSE,
          clusterUsedBySlot |-> clusterUsedBySlot, validCluster |-> {}]
    ELSE LET winner(oldes, c) ==
                 IF c.fail
                 THEN [foundValid |-> FALSE, fail |-> TRUE,
                       clusterUsedBySlot |-> c.clusterUsedBySlot, validCluster |-> {}]
                 ELSE IF ~c.err
                 THEN [foundValid |-> TRUE, fail |-> FALSE,
                       clusterUsedBySlot |-> c.clusterUsedBySlot,
                       validCluster |-> c.validCluster]
                 ELSE SelectStart(m, U, ub, c.clusterUsedBySlot, firstCluster,
                                  ages \ {oldes})
             try(oldes) ==
                 winner(oldes, CheckStart(m, U, ub, clusterUsedBySlot, oldes,
                                          firstCluster[oldes]))
         IN  try(OldestOf(ages))

\* mutant: nothing is removed when no generation was found valid
RECURSIVE RemoveInvalid_OnlyWhenFound(_, _, _, _, _)
RemoveInvalid_OnlyWhenFound(st, clusterUsedBySlot, foundValid, validCluster, cluster) ==
    IF cluster >= S_CLUSTER_CNT \/ ~foundValid THEN st
    ELSE IF cluster \notin clusterUsedBySlot \/ cluster \in validCluster
         THEN RemoveInvalid_OnlyWhenFound(st, clusterUsedBySlot, foundValid,
                                          validCluster, cluster + 1)
    ELSE RemoveInvalid_OnlyWhenFound(clearCluster(st, cluster), clusterUsedBySlot,
                                     foundValid, validCluster, cluster + 1)

\* pass 2, "remove all not valid cluster", from cluster on
RECURSIVE RemoveInvalid(_, _, _, _, _)
RemoveInvalid(st, clusterUsedBySlot, foundValid, validCluster, cluster) ==
    IF cluster >= S_CLUSTER_CNT THEN st
    ELSE IF cluster \notin clusterUsedBySlot
         THEN RemoveInvalid(st, clusterUsedBySlot, foundValid, validCluster, cluster + 1)
    ELSE IF foundValid /\ cluster \in validCluster
         THEN RemoveInvalid(st, clusterUsedBySlot, foundValid, validCluster, cluster + 1)
    ELSE RemoveInvalid(clearCluster(st, cluster), clusterUsedBySlot, foundValid,
                       validCluster, cluster + 1)

\* pass 2, the body of the loop for one slot
CheckSlot(st, slot) ==
    IF st.lost \/ st.fail \/ slot \notin st.avail THEN st
    ELSE LET m == st.mem
             U == S_USER_DATA_PER_CLUSTER(st.crc)
             \* if (!foundValid) clearSlotBit(slot)
             clearSlotBit(foundValid, r) ==
                 IF r.lost \/ foundValid THEN r
                 ELSE [r EXCEPT !.avail = @ \ {slot}]
             \* remove all not valid cluster
             remove(sel) ==
                 IF sel.fail THEN [st EXCEPT !.fail = TRUE]
                 ELSE clearSlotBit(sel.foundValid,
                                   RemoveInvalid(st, sel.clusterUsedBySlot,
                                                 sel.foundValid, sel.validCluster, 0))
             \* the loop runs upwards, so a later start cluster of an age wins
             firstCluster(starts) ==
                 [a \in 0 .. 3 |->
                    LET sa == {c \in starts : AgeOf(m[c * CLUSTER_SIZE + 1]) = a}
                    IN  IF sa = {} THEN 0 ELSE Max(sa)]
             check(clusterUsedBySlot, starts) ==
                 remove(SelectStart(m, U, st.ub, clusterUsedBySlot,
                                    firstCluster(starts),
                                    {AgeOf(m[c * CLUSTER_SIZE + 1]) : c \in starts}))
             collect(clusterUsedBySlot) ==
                 check(clusterUsedBySlot,
                       {c \in clusterUsedBySlot : IsStart(m[c * CLUSTER_SIZE + 1])})
         IN  collect({c \in st.used : m[c * CLUSTER_SIZE] = slot})

RECURSIVE CheckSlots(_, _)
CheckSlots(st, slot) ==
    IF slot > S_LAST_SLOT THEN st
    ELSE CheckSlots(CheckSlot(st, slot), slot + 1)

\* mutant: m_initDone is not looked at
begin_Again(st) ==
    LET found(valid) ==
            [st EXCEPT
               !.used  = @ \cup valid,
               !.avail = @ \cup {st.mem[c * CLUSTER_SIZE] : c \in valid}]
        done(p2) ==
            IF p2.lost \/ p2.fail THEN [st |-> p2, ret |-> FALSE]
            ELSE [st |-> [p2 EXCEPT !.init = TRUE], ret |-> TRUE]
    IN  done(CheckSlots(found({c \in Clusters : Pass1Valid(st.mem, st.crc, c)}),
                        S_FIRST_SLOT))

begin(st) ==
    IF st.init THEN [st |-> st, ret |-> FALSE]
    ELSE LET \* pass 1: setClusterBit(cluster), setSlotBit(slot)
             found(valid) ==
                 [st EXCEPT
                    !.used  = @ \cup valid,
                    !.avail = @ \cup {st.mem[c * CLUSTER_SIZE] : c \in valid}]
             done(p2) ==
                 IF p2.lost \/ p2.fail THEN [st |-> p2, ret |-> FALSE]
                 ELSE [st |-> [p2 EXCEPT !.init = TRUE], ret |-> TRUE]
         IN  done(CheckSlots(found({c \in Clusters : Pass1Valid(st.mem, st.crc, c)}),
                             S_FIRST_SLOT))

(* ---- SlotNVM::findStartCluser ------------------------------------------ *)
findStartCluser(st, slot) ==
    LET first(starts) ==
            IF starts = {} THEN [ok |-> FALSE, startCluster |-> 0]
            ELSE [ok |-> TRUE, startCluster |-> Min(starts)]
    IN  first({c \in st.used :
                 /\ st.mem[c * CLUSTER_SIZE] = slot
                 /\ IsStart(st.mem[c * CLUSTER_SIZE + 1])})

(* ---- SlotNVM::getSize, getUsableSize, getFree ------------------------- *)
getSize(st) == S_CLUSTER_CNT * S_USER_DATA_PER_CLUSTER(st.crc)

getUsableSize(st) == getSize(st) - S_PROVISION(st.crc, st.prov)

\* mutant: the reserved space is not taken off
getFree_NoProvision(st) ==
    getSize(st) - Cardinality(st.used) * S_USER_DATA_PER_CLUSTER(st.crc)

getFree(st) ==
    LET provisioned(free) ==
            IF free < S_PROVISION(st.crc, st.prov) THEN 0
            ELSE free - S_PROVISION(st.crc, st.prov)
    IN  provisioned(getSize(st) - Cardinality(st.used) * S_USER_DATA_PER_CLUSTER(st.crc))

(* ---- SlotNVM::nextFreeCluster ----------------------------------------- *)
\* the while loop; nextCluster is a uint8_t, fuel bounds the turns of the
\* loop: a loop that outlives it never returns (hang)
RECURSIVE NextFreeLoop(_, _, _, _)
NextFreeLoop(used, startCluster, nextCluster, fuel) ==
    IF nextCluster = startCluster
    THEN [ok |-> FALSE, hang |-> FALSE, nextCluster |-> nextCluster]
    ELSE IF fuel = 0
    THEN [ok |-> FALSE, hang |-> TRUE, nextCluster |-> nextCluster]
    ELSE LET n == IF nextCluster >= S_CLUSTER_CNT THEN 0 ELSE nextCluster
         IN  IF n \in used
             THEN NextFreeLoop(used, startCluster, (n + 1) % 256, fuel - 1)
             ELSE [ok |-> TRUE, hang |-> FALSE, nextCluster |-> n]

\* mutant: the search starts where it starts without RND_FUNC, whatever
\* nextCluster is
nextFreeCluster_NoStart(used, nextCluster) ==
    NextFreeLoop(used, S_CLUSTER_CNT, (S_CLUSTER_CNT + 1) % 256, 2 * S_CLUSTER_CNT + 2)

nextFreeCluster(used, nextCluster) ==
    LET n0 == IF S_CLUSTER_CNT < 256 /\ nextCluster > S_CLUSTER_CNT
              THEN S_CLUSTER_CNT ELSE nextCluster
    IN  NextFreeLoop(used, n0, (n0 + 1) % 256, 2 * S_CLUSTER_CNT + 2)

(* ---- SlotNVM::clearClusters ------------------------------------------- *)
\* mutant: only the first cluster is invalidated
ClearLoop_StartOnly(st, cAddr, maxDeep) == st

\* mutant: the link of the last cluster is followed once more
RECURSIVE ClearLoop_IgnoresLast(_, _, _)
ClearLoop_IgnoresLast(st, cAddr, maxDeep) ==
    IF st.lost THEN st
    ELSE LET firstCluster == st.mem[cAddr + 2]
             cAddr2       == firstCluster * CLUSTER_SIZE
             md           == (maxDeep + 255) % 256
             while(w)     == IF w.lost \/ md = 0 \/ IsLast(st.mem[cAddr + 1]) THEN w
                             ELSE ClearLoop_IgnoresLast(w, cAddr2, md)
         IN  IF cAddr2 >= S_SIZE THEN st
             ELSE while(clearCluster(st, firstCluster))

\* the do-while loop; maxDeep is a uint8_t
RECURSIVE ClearLoop(_, _, _)
ClearLoop(st, cAddr, maxDeep) ==
    IF st.lost THEN st
    ELSE IF IsLast(st.mem[cAddr + 1]) THEN st
    ELSE LET firstCluster == st.mem[cAddr + 2]
             cAddr2       == firstCluster * CLUSTER_SIZE
             md           == (maxDeep + 255) % 256
             while(w)     == IF w.lost \/ md = 0 THEN w ELSE ClearLoop(w, cAddr2, md)
         IN  IF cAddr2 >= S_SIZE THEN st       \* the write returns false: break
             ELSE while(clearCluster(st, firstCluster))

\* mutant: no cluster is invalidated
clearClusters_Nothing(st, firstCluster) == [st |-> st, ret |-> TRUE]

clearClusters(st, firstCluster) ==
    LET loop(w) ==
            IF w.lost THEN [st |-> w, ret |-> FALSE]
            ELSE [st  |-> ClearLoop(w, firstCluster * CLUSTER_SIZE,
                                    (256 \div S_USER_DATA_PER_CLUSTER(st.crc)) % 256),
                  ret |-> TRUE]
    IN  loop(clearCluster(st, firstCluster))

(* ---- SlotNVM::readSlot ------------------------------------------------ *)
\* the do-while loop; data is what has been copied into the buffer so far
RECURSIVE ReadLoop(_, _, _, _, _)
ReadLoop(m, U, cAddr, lenToCopy, data) ==
    IF cAddr + 1 >= S_SIZE THEN [ret |-> FALSE, data |-> data]
    ELSE LET flags   == m[cAddr + 1]
             curCopy == IF lenToCopy > U THEN U ELSE lenToCopy
             data2   == data \o MockReadBuf(m, cAddr + 4, curCopy)
             left    == lenToCopy - curCopy
             cAddr2  == m[cAddr + 2] * CLUSTER_SIZE
         IN  IF ~IsLast(flags) /\ left > 0
             THEN ReadLoop(m, U, cAddr2, left, data2)
             ELSE [ret |-> TRUE, data |-> data2]

\* mutant: len is left as it was when the buffer is too small
readSlot_KeepsSize(st, slot, dataNull, len) ==
    LET copied(lenToCopy, r) == [ret |-> r.ret, len |-> lenToCopy, data |-> r.data]
        copy(cAddr, lenToCopy) ==
            IF lenToCopy > len
            THEN [ret |-> FALSE, len |-> len, data |-> << >>]
            ELSE IF dataNull
            THEN [ret |-> FALSE, len |-> lenToCopy, data |-> << >>]
            ELSE copied(lenToCopy,
                        ReadLoop(st.mem, S_USER_DATA_PER_CLUSTER(st.crc), cAddr,
                                 lenToCopy, << >>))
        read(fs) ==
            IF ~st.init \/ ~fs.ok THEN [ret |-> FALSE, len |-> len, data |-> << >>]
            ELSE copy(fs.startCluster * CLUSTER_SIZE,
                      st.mem[fs.startCluster * CLUSTER_SIZE + 3] + 1)
    IN  read(findStartCluser(st, slot))

\* dataNull: the buffer is NULL; len: the size of the buffer
readSlot(st, slot, dataNull, len) ==
    LET copied(lenToCopy, r) == [ret |-> r.ret, len |-> lenToCopy, data |-> r.data]
        copy(cAddr, lenToCopy) ==
            IF lenToCopy > len
            THEN [ret |-> FALSE, len |-> lenToCopy, data |-> << >>]
            ELSE IF dataNull
            THEN [ret |-> FALSE, len |-> lenToCopy, data |-> << >>]
            ELSE copied(lenToCopy,
                        ReadLoop(st.mem, S_USER_DATA_PER_CLUSTER(st.crc), cAddr,
                                 lenToCopy, << >>))
        read(fs) ==
            IF ~st.init \/ ~fs.ok THEN [ret |-> FALSE, len |-> len, data |-> << >>]
            ELSE copy(fs.startCluster * CLUSTER_SIZE,
                      st.mem[fs.startCluster * CLUSTER_SIZE + 3] + 1)
    IN  read(findStartCluser(st, slot))

(* ---- SlotNVM::writeSlot ----------------------------------------------- *)
\* const uint8_t cntCluster = (len - 1) / S_USER_DATA_PER_CLUSTER + 1
cntClusterOf(len, U) == (((len - 1) \div U) + 1) % 256

\* for (i = 0; i < cntCluster; ++i) nextFreeCluster(nextCluster)
RECURSIVE AllocLoop(_, _, _, _)
AllocLoop(used, nextCluster, left, newCluster) ==
    IF left = 0 THEN [ok |-> TRUE, hang |-> FALSE, newCluster |-> newCluster]
    ELSE LET next(n) ==
                 IF ~n.ok THEN [ok |-> FALSE, hang |-> n.hang, newCluster |-> newCluster]
                 ELSE AllocLoop(used, n.nextCluster, left - 1,
                                Append(newCluster, n.nextCluster))
         IN  next(nextFreeCluster(used, nextCluster))

\* mutant: every cluster takes its bytes from the start of data
SubSeqOf_NoOffset(data, offset, toCopy) == [k \in 1 .. toCopy |-> data[k]]

\* the toCopy bytes at data + offset
SubSeqOf(data, offset, toCopy) == [k \in 1 .. toCopy |-> data[offset + k]]

\* mutant: the end byte is written before the payload
WriteCluster_EndByteFirst(st, slot, data, len, newAge, newCluster, i) ==
    LET U           == S_USER_DATA_PER_CLUSTER(st.crc)
        cntCluster  == Len(newCluster)
        nextCluster == newCluster[i + 1]
        cAddr       == nextCluster * CLUSTER_SIZE
        offset      == i * U
        toCopy      == IF len - offset > U THEN U ELSE len - offset
        d           == << slot,
                          newAge + (IF i = 0 THEN S_START_CLUSTER_FLAG ELSE 0)
                                 + (IF i = cntCluster - 1 THEN S_LAST_CLUSTER_FLAG ELSE 0),
                          IF i = cntCluster - 1 THEN slot ELSE newCluster[i + 2],
                          IF i = 0 THEN (len - 1) % 256 ELSE toCopy >>
        chunk       == SubSeqOf(data, offset, toCopy)
        writeCRC(s) == IF st.crc
                       THEN MockWrite(s, cAddr + CLUSTER_SIZE - 2,
                                      crc_buf(crc_buf(0, d), chunk))
                       ELSE s
        setClusterBit(s) ==
                       IF s.lost THEN s ELSE [s EXCEPT !.used = @ \cup {nextCluster}]
        s1          == IF st.mem[cAddr + CLUSTER_SIZE - 1] = S_END_BYTE(st.crc)
                       THEN MockWrite(st, cAddr + CLUSTER_SIZE - 1, 0)
                       ELSE st
        s2          == MockWriteBuf(s1, cAddr, d)
        s3          == MockWrite(s2, cAddr + CLUSTER_SIZE - 1, S_END_BYTE(st.crc))
        s4          == MockWriteBuf(s3, cAddr + 4, chunk)
    IN  setClusterBit(writeCRC(s4))

\* mutant: a valid end byte found in the cluster is left as it is
WriteCluster_KeepsEndByte(st, slot, data, len, newAge, newCluster, i) ==
    LET U           == S_USER_DATA_PER_CLUSTER(st.crc)
        cntCluster  == Len(newCluster)
        nextCluster == newCluster[i + 1]
        cAddr       == nextCluster * CLUSTER_SIZE
        offset      == i * U
        toCopy      == IF len - offset > U THEN U ELSE len - offset
        d           == << slot,
                          newAge + (IF i = 0 THEN S_START_CLUSTER_FLAG ELSE 0)
                                 + (IF i = cntCluster - 1 THEN S_LAST_CLUSTER_FLAG ELSE 0),
                          IF i = cntCluster - 1 THEN slot ELSE newCluster[i + 2],
                          IF i = 0 THEN (len - 1) % 256 ELSE toCopy >>
        chunk       == SubSeqOf(data, offset, toCopy)
        writeCRC(s) == IF st.crc
                       THEN MockWrite(s, cAddr + CLUSTER_SIZE - 2,
                                      crc_buf(crc_buf(0, d), chunk))
                       ELSE s
        setClusterBit(s) ==
                       IF s.lost THEN s ELSE [s EXCEPT !.used = @ \cup {nextCluster}]
        s2          == MockWriteBuf(st, cAddr, d)
        s3          == MockWriteBuf(s2, cAddr + 4, chunk)
        s4          == writeCRC(s3)
        s5          == MockWrite(s4, cAddr + CLUSTER_SIZE - 1, S_END_BYTE(st.crc))
    IN  setClusterBit(s5)

\* mutant: the bit of the cluster is set whether or not its bytes were written
WriteCluster_BitFirst(st, slot, data, len, newAge, newCluster, i) ==
    LET U           == S_USER_DATA_PER_CLUSTER(st.crc)
        cntCluster  == Len(newCluster)
        nextCluster == newCluster[i + 1]
        cAddr       == nextCluster * CLUSTER_SIZE
        offset      == i * U
        toCopy      == IF len - offset > U THEN U ELSE len - offset
        d           == << slot,
                          newAge + (IF i = 0 THEN S_START_CLUSTER_FLAG ELSE 0)
                                 + (IF i = cntCluster - 1 THEN S_LAST_CLUSTER_FLAG ELSE 0),
                          IF i = cntCluster - 1 THEN slot ELSE newCluster[i + 2],
                          IF i = 0 THEN (len - 1) % 256 ELSE toCopy >>
        chunk       == SubSeqOf(data, offset, toCopy)
        writeCRC(s) == IF st.crc
                       THEN MockWrite(s, cAddr + CLUSTER_SIZE - 2,
                                      crc_buf(crc_buf(0, d), chunk))
                       ELSE s
        setClusterBit(s) == [s EXCEPT !.used = @ \cup {nextCluster}]
        s1          == IF st.mem[cAddr + CLUSTER_SIZE - 1] = S_END_BYTE(st.crc)
                       THEN MockWrite(st, cAddr + CLUSTER_SIZE - 1, 0)
                       ELSE st
        s2          == MockWriteBuf(s1, cAddr, d)
        s3          == MockWriteBuf(s2, cAddr + 4, chunk)
        s4          == writeCRC(s3)
        s5          == MockWrite(s4, cAddr + CLUSTER_SIZE - 1, S_END_BYTE(st.crc))
    IN  setClusterBit(s5)

\* mutant: the length byte of a start cluster is the number of payload bytes
\* it holds
WriteCluster_LengthHeld(st, slot, data, len, newAge, newCluster, i) ==
    LET U           == S_USER_DATA_PER_CLUSTER(st.crc)
        cntCluster  == Len(newCluster)
        nextCluster == newCluster[i + 1]
        cAddr       == nextCluster * CLUSTER_SIZE
        offset      == i * U
        toCopy      == IF len - offset > U THEN U ELSE len - offset
        d           == << slot,
                          newAge + (IF i = 0 THEN S_START_CLUSTER_FLAG ELSE 0)
                                 + (IF i = cntCluster - 1 THEN S_LAST_CLUSTER_FLAG ELSE 0),
                          IF i = cntCluster - 1 THEN slot ELSE newCluster[i + 2],
                          toCopy >>
        chunk       == SubSeqOf(data, offset, toCopy)
        writeCRC(s) == IF st.crc
                       THEN MockWrite(s, cAddr + CLUSTER_SIZE - 2,
                                      crc_buf(crc_buf(0, d), chunk))
                       ELSE s
        setClusterBit(s) ==
                       IF s.lost THEN s ELSE [s EXCEPT !.used = @ \cup {nextCluster}]
        \* last byte should become valid at last, so make it invalid
        s1          == IF st.mem[cAddr + CLUSTER_SIZE - 1] = S_END_BYTE(st.crc)
                       THEN MockWrite(st, cAddr + CLUSTER_SIZE - 1, 0)
                       ELSE st
        s2          == MockWriteBuf(s1, cAddr, d)                \* the header
        s3          == MockWriteBuf(s2, cAddr + 4, chunk)        \* the data
        s4          == writeCRC(s3)
        \* now make cluster valid
        s5          == MockWrite(s4, cAddr + CLUSTER_SIZE - 1, S_END_BYTE(st.crc))
    IN  setClusterBit(s5)

\* mutant: no cluster gets the flag of the last cluster
WriteCluster_NoLastFlag(st, slot, data, len, newAge, newCluster, i) ==
    LET U           == S_USER_DATA_PER_CLUSTER(st.crc)
        cntCluster  == Len(newCluster)
        nextCluster == newCluster[i + 1]
        cAddr       == nextCluster * CLUSTER_SIZE
        offset      == i * U
        toCopy      == IF len - offset > U THEN U ELSE len - offset
        d           == << slot,
                          newAge + (IF i = 0 THEN S_START_CLUSTER_FLAG ELSE 0)
                                 + 0,
                          IF i = cntCluster - 1 THEN slot ELSE newCluster[i + 2],
                          IF i = 0 THEN (len - 1) % 256 ELSE toCopy >>
        chunk       == SubSeqOf(data, offset, toCopy)
        writeCRC(s) == IF st.crc
                       THEN MockWrite(s, cAddr + CLUSTER_SIZE - 2,
                                      crc_buf(crc_buf(0, d), chunk))
                       ELSE s
        setClusterBit(s) ==
                       IF s.lost THEN s ELSE [s EXCEPT !.used = @ \cup {nextCluster}]
        \* last byte should become valid at last, so make it invalid
        s1          == IF st.mem[cAddr + CLUSTER_SIZE - 1] = S_END_BYTE(st.crc)
                       THEN MockWrite(st, cAddr + CLUSTER_SIZE - 1, 0)
                       ELSE st
        s2          == MockWriteBuf(s1, cAddr, d)                \* the header
        s3          == MockWriteBuf(s2, cAddr + 4, chunk)        \* the data
        s4          == writeCRC(s3)
        \* now make cluster valid
        s5          == MockWrite(s4, cAddr + CLUSTER_SIZE - 1, S_END_BYTE(st.crc))
    IN  setClusterBit(s5)

\* the body of the write loop for chain position i (0 = start cluster)
WriteCluster(st, slot, data, len, newAge, newCluster, i) ==
    LET U           == S_USER_DATA_PER_CLUSTER(st.crc)
        cntCluster  == Len(newCluster)
        nextCluster == newCluster[i + 1]
        cAddr       == nextCluster * CLUSTER_SIZE
        offset      == i * U
        toCopy      == IF len - offset > U THEN U ELSE len - offset
        d           == << slot,
                          newAge + (IF i = 0 THEN S_START_CLUSTER_FLAG ELSE 0)
                                 + (IF i = cntCluster - 1 THEN S_LAST_CLUSTER_FLAG ELSE 0),
                          IF i = cntCluster - 1 THEN slot ELSE newCluster[i + 2],
                          IF i = 0 THEN (len - 1) % 256 ELSE toCopy >>
        chunk       == SubSeqOf(data, offset, toCopy)
        writeCRC(s) == IF st.crc
                       THEN MockWrite(s, cAddr + CLUSTER_SIZE - 2,
                                      crc_buf(crc_buf(0, d), chunk))
                       ELSE s
        setClusterBit(s) ==
                       IF s.lost THEN s ELSE [s EXCEPT !.used = @ \cup {nextCluster}]
        \* last byte should become valid at last, so make it invalid
        s1          == IF st.mem[cAddr + CLUSTER_SIZE - 1] = S_END_BYTE(st.crc)
                       THEN MockWrite(st, cAddr + CLUSTER_SIZE - 1, 0)
                       ELSE st
        s2          == MockWriteBuf(s1, cAddr, d)                \* the header
        s3          == MockWriteBuf(s2, cAddr + 4, chunk)        \* the data
        s4          == writeCRC(s3)
        \* now make cluster valid
        s5          == MockWrite(s4, cAddr + CLUSTER_SIZE - 1, S_END_BYTE(st.crc))
    IN  setClusterBit(s5)

\* mutant: the clusters are written in chain order, the start cluster first
RECURSIVE WriteLoop_StartFirst(_, _, _, _, _, _, _)
WriteLoop_StartFirst(st, slot, data, len, newAge, newCluster, i) ==
    IF i < 0 \/ st.lost THEN st
    ELSE WriteLoop_StartFirst(WriteCluster(st, slot, data, len, newAge, newCluster,
                                           Len(newCluster) - 1 - i),
                              slot, data, len, newAge, newCluster, i - 1)

\* for (i = cntCluster-1; i >= 0; --i)
RECURSIVE WriteLoop(_, _, _, _, _, _, _)
WriteLoop(st, slot, data, len, newAge, newCluster, i) ==
    IF i < 0 \/ st.lost THEN st
    ELSE WriteLoop(WriteCluster(st, slot, data, len, newAge, newCluster, i),
                   slot, data, len, newAge, newCluster, i - 1)

\* mutant: the bit of the slot is set before the space is checked
writeSlot_MarksSlotFirst(st, slot, dataNull, data, len, rnd) ==
    IF \/ ~st.init
       \/ dataNull
       \/ len < 1
       \/ len > 256
       \/ slot < S_FIRST_SLOT
       \/ slot > S_LAST_SLOT
    THEN [st |-> st, ret |-> FALSE, hang |-> FALSE]
    ELSE
    LET U          == S_USER_DATA_PER_CLUSTER(st.crc)
        SP         == S_PROVISION(st.crc, st.prov)
        cntCluster == cntClusterOf(len, U)
        result(e)  == [st |-> e, ret |-> ~e.lost, hang |-> FALSE]
        \* if (overwrite) clearClusters(oldStartCluster) else setSlotBit(slot)
        commit(fs, w) ==
            IF w.lost THEN w
            ELSE IF fs.ok THEN clearClusters(w, fs.startCluster).st
            ELSE [w EXCEPT !.avail = @ \cup {slot}]
        write(fs, newAge, alloc) ==
            IF ~alloc.ok THEN [st |-> st, ret |-> FALSE, hang |-> alloc.hang]
            ELSE result(commit(fs, WriteLoop(st, slot, data, len, newAge,
                                             alloc.newCluster, cntCluster - 1)))
        extraFree(oldLen) == ((oldLen + U - 1) \div U) * U
        credit(extra)     == IF extra > SP THEN SP ELSE extra
        admit(fs, newAge, free) ==
            IF free < len
            THEN [st |-> [st EXCEPT !.avail = @ \cup {slot}], ret |-> FALSE,
                  hang |-> FALSE]
            ELSE write(fs, newAge,
                       AllocLoop(st.used, rnd % S_CLUSTER_CNT, cntCluster, << >>))
        overwrite(fs) ==
            IF fs.ok
            THEN admit(fs,
                       ((AgeOf(st.mem[fs.startCluster * CLUSTER_SIZE + 1]) + 1)
                            * (2 ^ S_AGE_SHIFT)) % 256,
                       getFree(st)
                         + credit(extraFree(st.mem[fs.startCluster * CLUSTER_SIZE + 3])))
            ELSE admit(fs, 0, getFree(st))
    IN  overwrite(findStartCluser(st, slot))

\* dataNull: data is NULL; rnd: the value RND_FUNC() returns
writeSlot(st, slot, dataNull, data, len, rnd) ==
    IF \/ ~st.init
       \/ dataNull
       \/ len < 1
       \/ len > 256
       \/ slot < S_FIRST_SLOT
       \/ slot > S_LAST_SLOT
    THEN [st |-> st, ret |-> FALSE, hang |-> FALSE]
    ELSE
    LET U          == S_USER_DATA_PER_CLUSTER(st.crc)
        SP         == S_PROVISION(st.crc, st.prov)
        cntCluster == cntClusterOf(len, U)
        result(e)  == [st |-> e, ret |-> ~e.lost, hang |-> FALSE]
        \* if (overwrite) clearClusters(oldStartCluster) else setSlotBit(slot)
        commit(fs, w) ==
            IF w.lost THEN w
            ELSE IF fs.ok THEN clearClusters(w, fs.startCluster).st
            ELSE [w EXCEPT !.avail = @ \cup {slot}]
        write(fs, newAge, alloc) ==
            IF ~alloc.ok THEN [st |-> st, ret |-> FALSE, hang |-> alloc.hang]
            ELSE result(commit(fs, WriteLoop(st, slot, data, len, newAge,
                                             alloc.newCluster, cntCluster - 1)))
        extraFree(oldLen) == ((oldLen + U - 1) \div U) * U
        credit(extra)     == IF extra > SP THEN SP ELSE extra
        admit(fs, newAge, free) ==
            IF free < len THEN [st |-> st, ret |-> FALSE, hang |-> FALSE]
            ELSE write(fs, newAge,
                       AllocLoop(st.used, rnd % S_CLUSTER_CNT, cntCluster, << >>))
        overwrite(fs) ==
            IF fs.ok
            THEN admit(fs,
                       ((AgeOf(st.mem[fs.startCluster * CLUSTER_SIZE + 1]) + 1)
                            * (2 ^ S_AGE_SHIFT)) % 256,
                       getFree(st)
                         + credit(extraFree(st.mem[fs.startCluster * CLUSTER_SIZE + 3])))
            ELSE admit(fs, 0, getFree(st))
    IN  overwrite(findStartCluser(st, slot))

(* ---- SlotNVM::eraseSlot ----------------------------------------------- *)
\* mutant: the bit of the slot stays set
eraseSlot_KeepsSlotBit(st, slot) ==
    LET cleared(r) == IF r.st.lost THEN [st |-> r.st, ret |-> FALSE] ELSE r
        erase(fs)  == IF ~st.init \/ ~fs.ok THEN [st |-> st, ret |-> FALSE]
                      ELSE cleared(clearClusters(st, fs.startCluster))
    IN  erase(findStartCluser(st, slot))

eraseSlot(st, slot) ==
    LET cleared(r) ==
            IF r.st.lost THEN [st |-> r.st, ret |-> FALSE]
            ELSE IF r.ret
            THEN [st |-> [r.st EXCEPT !.avail = @ \ {slot}], ret |-> TRUE]
            ELSE r
        erase(fs)  == IF ~st.init \/ ~fs.ok THEN [st |-> st, ret |-> FALSE]
                      ELSE cleared(clearClusters(st, fs.startCluster))
    IN  erase(findStartCluser(st, slot))

(* ---- SlotNVM::isSlotAvailable ----------------------------------------- *)
isSlotAvailable(st, slot) ==
    slot >= S_FIRST_SLOT /\ slot <= S_LAST_SLOT /\ slot \in st.avail

(* ---- the callers ------------------------------------------------------ *)
\* the payloads callers write: MaxTag contents for each of the lengths 1 and MaxLen
Payload(tag, len) == [i \in 1 .. len |-> 16 * tag + i]

Payloads == {Payload(t, l) : t \in 1 .. MaxTag, l \in {1, MaxLen}}

CallerSlots == S_FIRST_SLOT .. MaxSlot

\* the store as the calls see it, no power loss armed
Cur ==
    [mem |-> mem, used |-> m_usedCluster, avail |-> m_slotAvail, init |-> m_initDone,
     crc |-> crcOn, prov |-> provision, wb |-> 0, lost |-> FALSE, wc |-> 0,
     fail |-> FALSE, ub |-> "none"]

\* the same with power loss armed at the k-th byte write of the call
Armed(k) == [Cur EXCEPT !.wb = k]

\* the same where an access outside an array does u
CurUB(u) == [Cur EXCEPT !.ub = u]

\* a store object constructed on the medium of st
Fresh(st) ==
    [st EXCEPT !.used = {}, !.avail = {}, !.init = FALSE,
               !.wb = 0, !.lost = FALSE, !.wc = 0, !.fail = FALSE]

\* readSlot with a buffer of 256 bytes, as RandomTest::nvmTest calls it
ReadAll(st, slot) ==
    LET resize(r) == [ret |-> r.ret, data |-> IF r.ret THEN r.data ELSE << >>]
    IN  resize(readSlot(st, slot, FALSE, 256))

\* the clusters reached from the start cluster of a slot by following link
RECURSIVE ChainFrom(_, _, _)
ChainFrom(m, cluster, seen) ==
    IF cluster \in seen \/ cluster >= S_CLUSTER_CNT THEN seen
    ELSE IF IsLast(m[cluster * CLUSTER_SIZE + 1]) THEN seen \cup {cluster}
    ELSE ChainFrom(m, m[cluster * CLUSTER_SIZE + 2], seen \cup {cluster})

ChainOf(st, slot) ==
    LET chain(fs) == IF fs.ok THEN ChainFrom(st.mem, fs.startCluster, {}) ELSE {}
    IN  chain(findStartCluser(st, slot))

\* what a call is given and what the store held when it was made
Call(op, slot, data, ret, lost) ==
    [op |-> op, slot |-> slot, data |-> data, ret |-> ret, lost |-> lost,
     pre      |-> [s \in Slots |-> ReadAll(Cur, s)],
     preAvail |-> {s \in Slots : isSlotAvailable(Cur, s)},
     preChain |-> IF slot \in Slots THEN ChainOf(Cur, slot) ELSE {}]

NoCall ==
    [op |-> "none", slot |-> 0, data |-> << >>, ret |-> FALSE, lost |-> FALSE,
     pre      |-> [s \in Slots |-> [ret |-> FALSE, data |-> << >>]],
     preAvail |-> {},
     preChain |-> {}]

(* ---- the state machine ------------------------------------------------ *)
\* the calls a behaviour explores: MaxOps calls on the slots of the callers, or
\* MaxWear calls that all go to the first slot and write MaxLen bytes (data is
\* << >> for eraseSlot)
MayCall(slot, data) ==
    \/ ops < MaxOps
    \/ /\ ops < MaxWear
       /\ slot = S_FIRST_SLOT
       /\ Len(data) \in {0, MaxLen}
       /\ \A s \in CallerSlots : \A d \in written[s] :
             s = S_FIRST_SLOT /\ Len(d) = MaxLen

\* NVMRAMMock::NVMRAMMock and SlotNVM::SlotNVM
Init ==
    /\ mem = [a \in 0 .. (S_SIZE - 1) |-> DEFAULT_VALUE]
    /\ m_initDone = FALSE
    /\ m_slotAvail = {}
    /\ m_usedCluster = {}
    /\ crcOn \in BOOLEAN
    /\ provision = 0
    /\ last = NoCall
    /\ intr = NoCall
    /\ written = [s \in CallerSlots |-> {}]
    /\ ops = 0
    /\ cuts = 0

\* a call that returned: the store is as the call left it
Returned(st) ==
    /\ mem' = st.mem
    /\ m_initDone' = st.init
    /\ m_slotAvail' = st.avail
    /\ m_usedCluster' = st.used
    /\ UNCHANGED << crcOn, provision, cuts >>

\* a call that power loss cut: the medium keeps the bytes written so far and
\* the RAM of the store is gone
PowerLost(st) ==
    /\ mem' = st.mem
    /\ m_initDone' = FALSE
    /\ m_slotAvail' = {}
    /\ m_usedCluster' = {}
    /\ ops' = ops + 1
    /\ cuts' = cuts + 1
    /\ UNCHANGED << crcOn, provision >>

Begin ==
    /\ m_initDone => ops < MaxOps
    /\ ops' = IF m_initDone THEN ops + 1 ELSE ops
    /\ \E u \in UBOutcomes :
          \E r \in {begin(CurUB(u))} :
              /\ Returned(r.st)
              /\ last' = Call("begin", 0, << >>, r.ret, FALSE)
    /\ intr' = IF last.lost THEN last ELSE NoCall
    /\ UNCHANGED written

WriteSlot(slot, data, rnd) ==
    /\ m_initDone
    /\ MayCall(slot, data)
    /\ ops' = ops + 1
    /\ \E r \in {writeSlot(Cur, slot, FALSE, data, Len(data), rnd)} :
          /\ ~r.hang
          /\ Returned(r.st)
          /\ last' = Call("writeSlot", slot, data, r.ret, FALSE)
    /\ intr' = NoCall
    /\ written' = [written EXCEPT ![slot] = @ \cup {data}]

WriteSlotPowerLoss(slot, data, rnd) ==
    /\ m_initDone
    /\ MayCall(slot, data)
    /\ cuts < MaxCuts
    /\ \E k \in 1 .. writeSlot(Cur, slot, FALSE, data, Len(data), rnd).st.wc :
          /\ PowerLost(writeSlot(Armed(k), slot, FALSE, data, Len(data), rnd).st)
          /\ last' = Call("writeSlot", slot, data, FALSE, TRUE)
    /\ intr' = NoCall
    /\ written' = [written EXCEPT ![slot] = @ \cup {data}]

EraseSlot(slot) ==
    /\ m_initDone
    /\ MayCall(slot, << >>)
    /\ ops' = ops + 1
    /\ \E r \in {eraseSlot(Cur, slot)} :
          /\ Returned(r.st)
          /\ last' = Call("eraseSlot", slot, << >>, r.ret, FALSE)
    /\ intr' = NoCall
    /\ UNCHANGED written

EraseSlotPowerLoss(slot) ==
    /\ m_initDone
    /\ MayCall(slot, << >>)
    /\ cuts < MaxCuts
    /\ \E k \in 1 .. eraseSlot(Cur, slot).st.wc :
          /\ PowerLost(eraseSlot(Armed(k), slot).st)
          /\ last' = Call("eraseSlot", slot, << >>, FALSE, TRUE)
    /\ intr' = NoCall
    /\ UNCHANGED written

Next ==
    \/ Begin
    \/ \E slot \in CallerSlots, data \in Payloads, rnd \in 0 .. MaxRnd :
          WriteSlot(slot, data, rnd)
    \/ \E slot \in CallerSlots, data \in Payloads, rnd \in 0 .. MaxRnd :
          WriteSlotPowerLoss(slot, data, rnd)
    \/ \E slot \in CallerSlots : EraseSlot(slot)
    \/ \E slot \in CallerSlots : EraseSlotPowerLoss(slot)

Spec == Init /\ [][Next]_vars

(* ---- a store on a medium of arbitrary content -------------------------- *)
\* what a cluster of the medium holds: nothing (blank), or the fields of a
\* cluster as SlotNVMTest::setTinyCluster lays them out; link "next" is the
\* cluster after it, "self" the cluster itself, "out" a number that is no
\* cluster; endOk: the end byte is S_END_BYTE
Blank == [slot |-> 0]

\* a cluster as a list of fields
Tpl(slot, age, isFirst, isLast, link, length, endOk) ==
    [slot |-> slot, age |-> age, isFirst |-> isFirst, isLast |-> isLast,
     link |-> link, length |-> length, endOk |-> endOk]

\* blank; the clusters of generations of one and of two clusters, of either
\* age; and the damaged ones: a link that is no cluster, an end byte that was
\* not written, a middle cluster, a length of more and of fewer clusters than
\* the chain has
Templates ==
    {Blank}
    \cup {Tpl(s, a, TRUE, TRUE, "self", 0, TRUE) : s \in CallerSlots, a \in 0 .. MaxAge}
    \cup {Tpl(s, a, TRUE, FALSE, "next", MaxLen - 1, TRUE) :
             s \in CallerSlots, a \in 0 .. MaxAge}
    \cup {Tpl(s, a, FALSE, TRUE, "self", 1, TRUE) : s \in CallerSlots, a \in 0 .. MaxAge}
    \cup {Tpl(s, a, TRUE, FALSE, "out", MaxLen - 1, TRUE) :
             s \in CallerSlots, a \in 0 .. MaxAge}
    \cup {Tpl(s, MaxAge, TRUE, TRUE, "self", 0, FALSE) : s \in CallerSlots}
    \cup {Tpl(s, 0, FALSE, FALSE, "next", 1, TRUE) : s \in CallerSlots}
    \cup {Tpl(s, 0, TRUE, TRUE, "self", MaxLen - 1, TRUE) : s \in CallerSlots}
    \cup {Tpl(s, 0, TRUE, FALSE, "next", 0, TRUE) : s \in CallerSlots}

\* the bytes of cluster c for a template t
setTinyCluster(c, t, crc) ==
    IF t = Blank THEN [i \in 1 .. CLUSTER_SIZE |-> DEFAULT_VALUE]
    ELSE LET U    == S_USER_DATA_PER_CLUSTER(crc)
             head == << t.slot,
                        t.age * (2 ^ S_AGE_SHIFT)
                          + (IF t.isFirst THEN S_START_CLUSTER_FLAG ELSE 0)
                          + (IF t.isLast THEN S_LAST_CLUSTER_FLAG ELSE 0),
                        CASE t.link = "self" -> c
                          [] t.link = "next" -> (c + 1) % MaxFill
                          [] t.link = "out"  -> S_CLUSTER_CNT,
                        t.length >>
             user == [i \in 1 .. U |-> 170 + i]
             n    == IF t.isFirst THEN Min({t.length + 1, U}) ELSE t.length
             body == head \o user
         IN  [i \in 1 .. CLUSTER_SIZE |->
                IF i <= 4 + U THEN body[i]
                ELSE IF i = CLUSTER_SIZE
                THEN (IF t.endOk THEN S_END_BYTE(crc) ELSE DEFAULT_VALUE)
                ELSE crc_buf(0, SubSeq(body, 1, 4 + n))]

\* the medium whose first clusters are laid out as f says, the rest blank
Medium(f, crc) ==
    [a \in 0 .. (S_SIZE - 1) |->
        IF a \div CLUSTER_SIZE \in DOMAIN f
        THEN setTinyCluster(a \div CLUSTER_SIZE, f[a \div CLUSTER_SIZE], crc)[(a % CLUSTER_SIZE) + 1]
        ELSE DEFAULT_VALUE]

\* a store constructed on such a medium; the callers make no call but begin
InitAny ==
    /\ crcOn = TRUE
    /\ \E f \in [0 .. (MaxFill - 1) -> Templates] : mem = Medium(f, crcOn)
    /\ m_initDone = FALSE
    /\ m_slotAvail = {}
    /\ m_usedCluster = {}
    /\ provision = 0
    /\ last = NoCall
    /\ intr = NoCall
    /\ written = [s \in CallerSlots |-> {}]
    /\ ops = MaxOps
    /\ cuts = 0

\* SlotNVM::SlotNVM on the medium as it is: a new store object
NewStore ==
    /\ m_initDone
    /\ cuts < MaxCuts
    /\ cuts' = cuts + 1
    /\ m_initDone' = FALSE
    /\ m_slotAvail' = {}
    /\ m_usedCluster' = {}
    /\ last' = Call("new", 0, << >>, TRUE, FALSE)
    /\ intr' = NoCall
    /\ UNCHANGED << mem, crcOn, provision, written, ops >>

NextAny ==
    \/ Begin
    \/ NewStore

SpecAny == InitAny /\ [][NextAny]_vars

(* ---- power loss in begin ------------------------------------------------ *)
\* what a begin that returned reports: its result, isSlotAvailable and the
\* bytes of readSlot of every slot
Reported(b) ==
    [ret   |-> b.ret,
     avail |-> {s \in Slots : isSlotAvailable(b.st, s)},
     reads |-> [s \in Slots |-> ReadAll(b.st, s)]]

\* begin cut by power loss at one of its byte writes; want is what the same
\* begin reports when it is not cut
BeginPowerLoss ==
    /\ ~m_initDone
    /\ cuts < MaxCuts
    /\ \E u \in UBOutcomes :
          \E b \in {begin(CurUB(u))} :
              \E k \in 1 .. b.st.wc :
                  /\ PowerLost(begin([CurUB(u) EXCEPT !.wb = k]).st)
                  /\ last' = Call("begin", 0, << >>, FALSE, TRUE)
                                @@ [want |-> Reported(b)]
    /\ intr' = NoCall
    /\ UNCHANGED written

NextRecover ==
    \/ Begin
    \/ BeginPowerLoss

SpecRecover == InitAny /\ [][NextRecover]_vars

(* ---- a store with reserved space ---------------------------------------- *)
\* the store after writeSlot(c + 1, Payload(1, 1), 1) has written cluster c,
\* for every cluster c of F (RND_FUNC() having returned c - 1)
RECURSIVE FillLoop(_, _)
FillLoop(st, F) ==
    IF F = {} THEN st
    ELSE LET c == Min(F)
         IN  FillLoop([WriteCluster(st, c + 1, Payload(1, 1), 1, 0, << c >>, 0)
                          EXCEPT !.avail = @ \cup {c + 1}],
                      F \ {c})

\* SlotNVM<NVMRAMMock<64>, 8, PROVISION, 0, ...> with PROVISION > 0, as the
\* tinyWithProvision of test_provision_00, where 2 * PROVISION <= S_CLUSTER_CNT *
\* S_USER_DATA_PER_CLUSTER (static_assert); the medium is blank or holds slots
\* beyond those of the callers, one byte each
InitProv ==
    /\ crcOn \in BOOLEAN
    /\ provision = MaxProv
    /\ 2 * provision <= S_USER_DATA_PER_CLUSTER(crcOn) * S_CLUSTER_CNT
    /\ \E F \in SUBSET (MaxSlot .. (MaxSlot + MaxHeld - 1)) :
          mem = FillLoop([mem |-> [a \in 0 .. (S_SIZE - 1) |-> DEFAULT_VALUE],
                          used |-> {}, avail |-> {}, init |-> TRUE,
                          crc |-> crcOn, prov |-> provision, wb |-> 0,
                          lost |-> FALSE, wc |-> 0, fail |-> FALSE,
                          ub |-> "none"], F).mem
    /\ m_initDone = FALSE
    /\ m_slotAvail = {}
    /\ m_usedCluster = {}
    /\ last = NoCall
    /\ intr = NoCall
    /\ written = [s \in CallerSlots |-> {}]
    /\ ops = 0
    /\ cuts = 0

SpecProv == InitProv /\ [][Next]_vars

(* ---- a store on a filled medium ----------------------------------------- *)
\* a new store object on a medium that first writes have filled but for at
\* most MaxBlank clusters
InitFill ==
    /\ crcOn \in BOOLEAN
    /\ provision = 0
    /\ \E F \in SUBSET Clusters :
          /\ Cardinality(Clusters \ F) <= MaxBlank
          /\ mem = FillLoop([mem |-> [a \in 0 .. (S_SIZE - 1) |-> DEFAULT_VALUE],
                             used |-> {}, avail |-> {}, init |-> TRUE,
                             crc |-> crcOn, prov |-> provision, wb |-> 0,
                             lost |-> FALSE, wc |-> 0, fail |-> FALSE,
                             ub |-> "none"], F).mem
          /\ written = [s \in CallerSlots |->
                           IF s - 1 \in F THEN {Payload(1, 1)} ELSE {}]
    /\ m_initDone = FALSE
    /\ m_slotAvail = {}
    /\ m_usedCluster = {}
    /\ last = NoCall
    /\ intr = NoCall
    /\ ops = MaxOps - 1
    /\ cuts = 0

NextFill ==
    \/ Begin
    \/ \E slot \in CallerSlots, data \in Payloads, rnd \in 0 .. MaxProbe :
          WriteSlot(slot, data, rnd)

SpecFill == InitFill /\ [][NextFill]_vars

(* ---- a store with reserved space on a crowded medium -------------------- *)
\* what the callers of such a store write: one byte, or one byte more than two
\* clusters hold
CrowdPayloads ==
    {Payload(t, l) : t \in 1 .. MaxTag,
                     l \in {1, 2 * S_USER_DATA_PER_CLUSTER(TRUE) + 1}}

\* a store with PROVISION > 0 constructed on a medium that a store without
\* PROVISION has written: the first slot holds three clusters of bytes
\* (clusters 1, 2, 3: RND_FUNC() % N was 0), slots beyond those of the callers
\* hold one byte each
InitCrowd ==
    /\ crcOn = TRUE
    /\ provision = MaxProv
    /\ 2 * provision <= S_USER_DATA_PER_CLUSTER(crcOn) * S_CLUSTER_CNT
    /\ \E F \in SUBSET (4 .. (S_CLUSTER_CNT - 1)) :
          mem = FillLoop(
                    writeSlot([mem |-> [a \in 0 .. (S_SIZE - 1) |-> DEFAULT_VALUE],
                               used |-> {}, avail |-> {}, init |-> TRUE,
                               crc |-> crcOn, prov |-> 0, wb |-> 0,
                               lost |-> FALSE, wc |-> 0, fail |-> FALSE,
                               ub |-> "none"],
                              S_FIRST_SLOT, FALSE,
                              Payload(1, 3 * S_USER_DATA_PER_CLUSTER(crcOn)),
                              3 * S_USER_DATA_PER_CLUSTER(crcOn), 0).st,
                    F).mem
    /\ m_initDone = FALSE
    /\ m_slotAvail = {}
    /\ m_usedCluster = {}
    /\ last = NoCall
    /\ intr = NoCall
    /\ written = [s \in CallerSlots |->
                     IF s = S_FIRST_SLOT
                     THEN {Payload(1, 3 * S_USER_DATA_PER_CLUSTER(crcOn))}
                     ELSE {}]
    /\ ops = MaxOps - 2
    /\ cuts = 0

NextCrowd ==
    \/ Begin
    \/ \E slot \in CallerSlots, data \in CrowdPayloads, rnd \in 0 .. MaxProbe :
          WriteSlot(slot, data, rnd)

SpecCrowd == InitCrowd /\ [][NextCrowd]_vars

(* ---- a medium with one damaged byte ------------------------------------- *)
\* m_memory[a]++ of test_CRC_00
Damaged(m, a) == [m EXCEPT ![a] = (@ + 1) % 256]

\* the first n slots of the callers written in turn, slot s with ds[s]
RECURSIVE WriteAll(_, _, _)
WriteAll(st, ds, n) ==
    IF n = 0 THEN st
    ELSE writeSlot(WriteAll(st, ds, n - 1), n, FALSE, ds[n], Len(ds[n]), 0).st

\* a new store object with CRC on a medium that a store of the same kind has
\* written (the first slots of the callers, one payload each), one byte of
\* which was incremented since
InitCrc ==
    /\ crcOn = TRUE
    /\ provision = 0
    /\ \E n \in CallerSlots, ds \in [CallerSlots -> Payloads], a \in 0 .. (S_SIZE - 1) :
          /\ mem = Damaged(WriteAll([mem |-> [b \in 0 .. (S_SIZE - 1) |-> DEFAULT_VALUE],
                                     used |-> {}, avail |-> {}, init |-> TRUE,
                                     crc |-> crcOn, prov |-> provision, wb |-> 0,
                                     lost |-> FALSE, wc |-> 0, fail |-> FALSE,
                                     ub |-> "none"], ds, n).mem, a)
          /\ written = [s \in CallerSlots |-> IF s <= n THEN {ds[s]} ELSE {}]
    /\ m_initDone = FALSE
    /\ m_slotAvail = {}
    /\ m_usedCluster = {}
    /\ last = NoCall
    /\ intr = NoCall
    /\ ops = MaxOps - 1
    /\ cuts = 0

NextCrc ==
    \/ Begin
    \/ \E slot \in CallerSlots, data \in Payloads, rnd \in 0 .. MaxRnd :
          WriteSlot(slot, data, rnd)

SpecCrc == InitCrc /\ [][NextCrc]_vars

(* ---- writes with every value of RND_FUNC -------------------------------- *)
\* what testWrite writes: a payload of one cluster and one of MaxLen bytes
WearPayloads == {Payload(1, 1), Payload(1, MaxLen)}

\* SlotNVMcrcToTest of doWearLevelingTest: a new store object with CRC and a
\* RND_FUNC on the blank medium
InitWear ==
    /\ mem = [a \in 0 .. (S_SIZE - 1) |-> DEFAULT_VALUE]
    /\ m_initDone = FALSE
    /\ m_slotAvail = {}
    /\ m_usedCluster = {}
    /\ crcOn = TRUE
    /\ provision = 0
    /\ last = NoCall
    /\ intr = NoCall
    /\ written = [s \in CallerSlots |-> {}]
    /\ ops = 0
    /\ cuts = 0

\* begin, then testWrite again and again: writeSlot(slot, data, len) with any
\* value of RND_FUNC()
NextWear ==
    \/ Begin
    \/ \E slot \in CallerSlots, data \in WearPayloads, rnd \in 0 .. MaxProbe :
          WriteSlot(slot, data, rnd)

SpecWear == InitWear /\ [][NextWear]_vars

(* ---- the probe for a free cluster, called by itself -------------------- *)
\* a store that has run begin on a medium that first writes have filled in
\* any set of clusters
InitProbe ==
    /\ crcOn = TRUE
    /\ provision = 0
    /\ \E F \in SUBSET Clusters :
          /\ mem = FillLoop([mem |-> [a \in 0 .. (S_SIZE - 1) |-> DEFAULT_VALUE],
                             used |-> {}, avail |-> {}, init |-> TRUE,
                             crc |-> crcOn, prov |-> provision, wb |-> 0,
                             lost |-> FALSE, wc |-> 0, fail |-> FALSE,
                             ub |-> "none"], F).mem
          /\ m_usedCluster = F
          /\ m_slotAvail = {c + 1 : c \in F}
          /\ written = [s \in CallerSlots |->
                           IF s - 1 \in F THEN {Payload(1, 1)} ELSE {}]
    /\ m_initDone = TRUE
    /\ last = NoCall
    /\ intr = NoCall
    /\ ops = MaxOps
    /\ cuts = 0

\* nextFreeCluster(nextCluster) as test_nextFreeCluster_00 calls it; hang: the
\* call does not return
NextFree(nextCluster) ==
    /\ \E r \in {nextFreeCluster(m_usedCluster, nextCluster)} :
          last' = [op |-> "nextFreeCluster", start |-> nextCluster,
                   ret |-> r.ok, hang |-> r.hang, nextCluster |-> r.nextCluster]
    /\ UNCHANGED << mem, m_initDone, m_slotAvail, m_usedCluster, crcOn, provision,
                    intr, written, ops, cuts >>

NextProbe ==
    /\ last = NoCall
    /\ \E nextCluster \in 0 .. 255 : NextFree(nextCluster)

SpecProbe == InitProbe /\ [][NextProbe]_vars

(* ---- callers that pass any argument, at any time ------------------------ *)
\* what such callers pass to writeSlot: slot, data = NULL, len; the last is
\* valid and passed before begin only
AnyArgs ==
    { << 0, FALSE, 1 >>, << S_LAST_SLOT + 1, FALSE, 1 >>, << 255, FALSE, 1 >>,
      << S_FIRST_SLOT, TRUE, 1 >>, << S_FIRST_SLOT, FALSE, 0 >>,
      << S_FIRST_SLOT, FALSE, 257 >>, << S_FIRST_SLOT, FALSE, 1 >> }

\* the buffer sizes they pass to readSlot
ReadSizes == {0, MaxLen - 1, 256}

\* a call of such a caller: a = << slot, data = NULL, len >>, data is what the
\* call copied to the buffer, wc the bytes it wrote to the medium
CallArgs(op, a, data, ret, wc) ==
    [op |-> op, slot |-> a[1], data |-> data, ret |-> ret, lost |-> FALSE,
     pre      |-> [s \in Slots |-> ReadAll(Cur, s)],
     preAvail |-> {s \in Slots : isSlotAvailable(Cur, s)},
     preChain |-> {},
     dataNull |-> a[2], len |-> a[3], wc |-> wc, early |-> ~m_initDone]

\* such callers come in among the first MaxOps calls of a behaviour
MayCallArgs == ops <= MaxOps

\* writeSlot before begin or with an argument that is not valid
WriteSlotArgs(slot, dataNull, len) ==
    /\ MayCallArgs
    /\ \/ ~m_initDone
       \/ dataNull
       \/ len < 1
       \/ len > 256
       \/ slot \notin Slots
    /\ \E r \in {writeSlot(Cur, slot, dataNull, Payload(1, 1), len, 0)} :
          /\ ~r.hang
          /\ Returned(r.st)
          /\ last' = CallArgs("writeSlot", << slot, dataNull, len >>, << >>,
                              r.ret, r.st.wc)
    /\ intr' = NoCall
    /\ UNCHANGED << written, ops >>

\* readSlot, at any time
ReadSlot(slot, dataNull, size) ==
    /\ MayCallArgs
    /\ \E r \in {readSlot(Cur, slot, dataNull, size)} :
          last' = CallArgs("readSlot", << slot, dataNull, size >>, r.data, r.ret, 0)
    /\ intr' = NoCall
    /\ UNCHANGED << mem, m_initDone, m_slotAvail, m_usedCluster, crcOn, provision,
                    written, ops, cuts >>

\* eraseSlot before begin
EraseSlotEarly(slot) ==
    /\ MayCallArgs
    /\ ~m_initDone
    /\ \E r \in {eraseSlot(Cur, slot)} :
          /\ Returned(r.st)
          /\ last' = CallArgs("eraseSlot", << slot, FALSE, 0 >>, << >>,
                              r.ret, r.st.wc)
    /\ intr' = NoCall
    /\ UNCHANGED << written, ops >>

NextArgs ==
    \/ Begin
    \/ NewStore
    \/ \E slot \in CallerSlots, data \in Payloads, rnd \in 0 .. MaxRnd :
          WriteSlot(slot, data, rnd)
    \/ \E slot \in CallerSlots : EraseSlot(slot)
    \/ \E a \in AnyArgs : WriteSlotArgs(a[1], a[2], a[3])
    \/ \E slot \in CallerSlots, dataNull \in BOOLEAN, size \in ReadSizes :
          ReadSlot(slot, dataNull, size)
    \/ \E slot \in CallerSlots : EraseSlotEarly(slot)

SpecArgs == Init /\ [][NextArgs]_vars

(* ---- a medium whose driver fails ----------------------------------------- *)
\* the age writeSlot gives the new generation of a slot
NewAgeOf(st, slot) ==
    LET age(fs) == IF fs.ok
                   THEN (AgeOf(st.mem[fs.startCluster * CLUSTER_SIZE + 1]) + 1) % 4
                   ELSE 0
    IN  age(findStartCluser(st, slot))

\* the byte writes of writeSlot up to the end byte of the new start cluster:
\* those of its write loop
CommitWrite(st, slot, data, rnd) ==
    LET loop(alloc) ==
            WriteLoop(st, slot, data, Len(data), NewAgeOf(st, slot) * (2 ^ S_AGE_SHIFT),
                      alloc.newCluster, Len(alloc.newCluster) - 1).wc
    IN  loop(AllocLoop(st.used, rnd % S_CLUSTER_CNT,
                       cntClusterOf(Len(data), S_USER_DATA_PER_CLUSTER(st.crc)), << >>))

\* writeSlot on a BASE whose k-th byte write returns false: the write loop
\* returns false at once, clearClusters breaks and writeSlot returns true
writeSlotFailing(st, slot, data, rnd, k) ==
    LET ret(r) == [st  |-> [r EXCEPT !.lost = FALSE, !.wb = 0],
                   ret |-> k > CommitWrite(st, slot, data, rnd)]
    IN  ret(writeSlot([st EXCEPT !.wb = k], slot, FALSE, data, Len(data), rnd).st)

\* the driver fails once; cuts counts the failure
WriteSlotDriverError(slot, data, rnd) ==
    /\ m_initDone
    /\ MayCall(slot, data)
    /\ cuts < MaxCuts
    /\ ops' = ops + 1
    /\ cuts' = cuts + 1
    /\ UNCHANGED << crcOn, provision >>
    /\ \E k \in 1 .. writeSlot(Cur, slot, FALSE, data, Len(data), rnd).st.wc :
          \E r \in {writeSlotFailing(Cur, slot, data, rnd, k)} :
              /\ mem' = r.st.mem
              /\ m_initDone' = r.st.init
              /\ m_slotAvail' = r.st.avail
              /\ m_usedCluster' = r.st.used
              /\ last' = Call("writeSlot", slot, data, r.ret, FALSE)
                            @@ [failedAt |-> k,
                                commit   |-> CommitWrite(Cur, slot, data, rnd)]
    /\ intr' = NoCall
    /\ written' = [written EXCEPT ![slot] = @ \cup {data}]

NextFail ==
    \/ Begin
    \/ \E slot \in CallerSlots, data \in Payloads, rnd \in 0 .. MaxRnd :
          WriteSlot(slot, data, rnd)
    \/ \E slot \in CallerSlots, data \in Payloads, rnd \in 0 .. MaxRnd :
          WriteSlotDriverError(slot, data, rnd)
    \/ \E slot \in CallerSlots : EraseSlot(slot)

SpecFail == Init /\ [][NextFail]_vars

(* ---- media with slot numbers that are no slot --------------------------- *)
\* slot numbers outside S_FIRST_SLOT .. S_LAST_SLOT: 0x00, the first number
\* above S_LAST_SLOT, the reserved 0xFB and 0xFE, and 0xFF
OutOfRange == {0, S_LAST_SLOT + 1, 251, 254, 255}

\* blank; clusters with such a slot number that are complete otherwise (a
\* generation of one cluster, the last cluster of a chain); and clusters of
\* the callers' slots: a generation of one cluster, the two clusters of a
\* chain, a start cluster whose link is no cluster
RangeTemplates ==
    {Blank}
    \cup {Tpl(s, 0, TRUE, TRUE, "self", 0, TRUE) : s \in OutOfRange \cup CallerSlots}
    \cup {Tpl(s, 0, FALSE, TRUE, "self", 1, TRUE) : s \in OutOfRange \cup CallerSlots}
    \cup {Tpl(s, 0, TRUE, FALSE, "next", MaxLen - 1, TRUE) : s \in CallerSlots}
    \cup {Tpl(s, 0, TRUE, FALSE, "out", MaxLen - 1, TRUE) : s \in CallerSlots}

\* a store constructed on such a medium; the callers make no call but begin
InitRange ==
    /\ crcOn = TRUE
    /\ \E f \in [0 .. (MaxFill - 1) -> RangeTemplates] : mem = Medium(f, crcOn)
    /\ m_initDone = FALSE
    /\ m_slotAvail = {}
    /\ m_usedCluster = {}
    /\ provision = 0
    /\ last = NoCall
    /\ intr = NoCall
    /\ written = [s \in CallerSlots |-> {}]
    /\ ops = MaxOps
    /\ cuts = 0

SpecRange == InitRange /\ [][NextAny]_vars

(* ---- the clusters of a write, for every cluster size ------------------- *)
\* the smallest CLUSTER_SIZE that leaves S_USER_DATA_PER_CLUSTER >= 1 with a
\* CRC, and the largest one the static_assert admits
MinClusterSize == 7
MaxClusterSize == 256

\* S_USER_DATA_PER_CLUSTER of a store with clusters of size bytes
UserDataPerCluster(size, crc) == size - 6 + (IF crc THEN 0 ELSE 1)

\* what writeSlot(slot, data, len) of such a store computes before it looks
\* for clusters: whether it accepts len, cntCluster, and the length byte d[3]
\* of the start cluster
CountClusters(size, len) ==
    /\ last' = [op       |-> "cntCluster",
                U        |-> UserDataPerCluster(size, crcOn),
                len      |-> len,
                accepted |-> ~(len < 1 \/ len > 256),
                cnt      |-> cntClusterOf(len, UserDataPerCluster(size, crcOn)),
                lenByte  |-> (len - 1) % 256]
    /\ UNCHANGED << mem, m_initDone, m_slotAvail, m_usedCluster, crcOn, provision,
                    intr, written, ops, cuts >>

NextLen ==
    /\ last = NoCall
    /\ \E size \in MinClusterSize .. MaxClusterSize, len \in 0 .. MaxWrite :
           CountClusters(size, len)

SpecLen == Init /\ [][NextLen]_vars

(* ---- what the claims speak of ------------------------------------------ *)
\* the store as the next state shows it
CurNext ==
    [mem |-> mem', used |-> m_usedCluster', avail |-> m_slotAvail', init |-> m_initDone',
     crc |-> crcOn', prov |-> provision', wb |-> 0, lost |-> FALSE, wc |-> 0,
     fail |-> FALSE, ub |-> "none"]

\* the valid start clusters on the medium that carry a slot number
ValidStarts(st, slot) ==
    {c \in Clusters :
        /\ Pass1Valid(st.mem, st.crc, c)
        /\ st.mem[c * CLUSTER_SIZE] = slot
        /\ IsStart(st.mem[c * CLUSTER_SIZE + 1])}

\* the valid clusters on the medium that carry a slot number
ValidOfSlot(st, slot) ==
    {c \in Clusters : Pass1Valid(st.mem, st.crc, c) /\ st.mem[c * CLUSTER_SIZE] = slot}

\* byte 0 of every cluster of a set is 0x00 and none is marked used
Invalidated(st, cs) ==
    \A c \in cs : st.mem[c * CLUSTER_SIZE] = 0 /\ c \notin st.used

Empty == [ret |-> FALSE, data |-> << >>]

\* the last call was a begin that followed a call of kind op cut by power loss
BeginAfterCut(op) == last.op = "begin" /\ intr.op = op /\ intr.lost

(* ---- media with start clusters of every age ---------------------------- *)
\* blank; a generation of one cluster of any of the four ages; and a start
\* cluster of any age that declares more bytes than its chain holds
AgeTemplates ==
    {Blank}
    \cup {Tpl(s, a, TRUE, TRUE, "self", 0, TRUE) : s \in CallerSlots, a \in 0 .. 3}
    \cup {Tpl(s, a, TRUE, TRUE, "self", MaxLen - 1, TRUE) : s \in CallerSlots, a \in 0 .. 3}

InitAges ==
    /\ crcOn = TRUE
    /\ \E f \in [0 .. (MaxFill - 1) -> AgeTemplates] : mem = Medium(f, crcOn)
    /\ m_initDone = FALSE
    /\ m_slotAvail = {}
    /\ m_usedCluster = {}
    /\ provision = 0
    /\ last = NoCall
    /\ intr = NoCall
    /\ written = [s \in CallerSlots |-> {}]
    /\ ops = MaxOps
    /\ cuts = 0

SpecAges == InitAges /\ [][NextAny]_vars

(* ---- C1 ---------------------------------------------------------------- *)
\* C1: when power loss cut writeSlot(s, new) and begin was run, begin returned
\* ok and readSlot(s) gives what s held before the call (nothing, if it held
\* nothing) or exactly new.
C1_WriteIsAtomic ==
    BeginAfterCut("writeSlot") =>
        /\ last.ret
        /\ LET r == ReadAll(Cur, intr.slot)
           IN  \/ r = intr.pre[intr.slot]
               \/ r = [ret |-> TRUE, data |-> intr.data]

\* a rewrite cut after its commit: the slot held a value of age 3 and now reads
\* the new one, of age 0
C1_Witness ==
    /\ BeginAfterCut("writeSlot")
    /\ intr.pre[intr.slot].ret
    /\ intr.pre[intr.slot].data # intr.data
    /\ ReadAll(Cur, intr.slot) = [ret |-> TRUE, data |-> intr.data]
    /\ LET fs == findStartCluser(Cur, intr.slot)
       IN  fs.ok /\ AgeOf(mem[fs.startCluster * CLUSTER_SIZE + 1]) = 0

(* ---- C2 ---------------------------------------------------------------- *)
\* C2: after writeSlot(slot, bytes, len) returned ok, readSlot(slot) with a
\* buffer of at least len bytes returns ok, len and exactly bytes.
C2_RoundTrip ==
    (last.op = "writeSlot" /\ last.ret) =>
        \A size \in {Len(last.data), Len(last.data) + 1, 256} :
            readSlot(Cur, last.slot, FALSE, size) =
                [ret |-> TRUE, len |-> Len(last.data), data |-> last.data]

\* a rewrite with a payload of more than one cluster returned ok
C2_Witness ==
    /\ last.op = "writeSlot"
    /\ last.ret
    /\ last.pre[last.slot].ret
    /\ Len(last.data) > S_USER_DATA_PER_CLUSTER(crcOn)

(* ---- C3 ---------------------------------------------------------------- *)
\* the other slots are as the call c found them
OthersAsBefore(c) ==
    \A t \in Slots \ {c.slot} :
        /\ isSlotAvailable(Cur, t) = (t \in c.preAvail)
        /\ ReadAll(Cur, t) = c.pre[t]

\* C3: writeSlot(s) and eraseSlot(s), returned or cut by power loss and followed
\* by begin, leave isSlotAvailable(t) and the bytes of readSlot(t) of every
\* other slot t as they were.
C3_OtherSlotsUntouched ==
    /\ (last.op \in {"writeSlot", "eraseSlot"} /\ ~last.lost) => OthersAsBefore(last)
    /\ (BeginAfterCut("writeSlot") \/ BeginAfterCut("eraseSlot")) => OthersAsBefore(intr)

\* a rewrite of a slot was cut while another slot held a value
C3_Witness ==
    /\ BeginAfterCut("writeSlot")
    /\ intr.pre[intr.slot].ret
    /\ \E t \in Slots \ {intr.slot} : intr.pre[t].ret /\ ReadAll(Cur, t) = intr.pre[t]

(* ---- C4 ---------------------------------------------------------------- *)
\* C4: after begin returned ok, every slot that isSlotAvailable reports reads
\* with a 256 byte buffer, and the bytes are a payload passed to an earlier
\* writeSlot of that slot.
C4_AvailableReadsWritten ==
    (last.op = "begin" /\ last.ret) =>
        \A s \in Slots :
            isSlotAvailable(Cur, s) =>
                /\ s \in CallerSlots
                /\ ReadAll(Cur, s).ret
                /\ ReadAll(Cur, s).data \in written[s]

\* begin after a cut call found two slots available
C4_Witness ==
    /\ last.op = "begin"
    /\ last.ret
    /\ intr.lost
    /\ Cardinality({s \in Slots : isSlotAvailable(Cur, s)}) >= 2

(* ---- C5 ---------------------------------------------------------------- *)
\* begin of a new store object on a copy of the medium
FreshBegin(u) == begin(Fresh(CurUB(u)))

\* C5: after calls that all returned, begin of a new store on a copy of the
\* medium writes nothing and builds the used_cluster and slot_avail of the
\* live store, and every slot reads the same from both.
C5_IndexReflectsMedium ==
    (m_initDone /\ cuts = 0) =>
        \A u \in UBOutcomes :
            LET fb == FreshBegin(u)
            IN  /\ fb.ret
                /\ fb.st.wc = 0
                /\ fb.st.mem = mem
                /\ fb.st.used = m_usedCluster
                /\ fb.st.avail = m_slotAvail
                /\ \A s \in Slots : ReadAll(fb.st, s) = ReadAll(Cur, s)

\* a slot was erased and another rewritten, a third value is held
C5_Witness ==
    /\ m_initDone
    /\ cuts = 0
    /\ ops = MaxOps
    /\ m_slotAvail # {}
    /\ \E c \in Clusters : mem[c * CLUSTER_SIZE] = 0

(* ---- C6 ---------------------------------------------------------------- *)
\* C6: whatever the medium held, after begin returned ok a begin of a new
\* store object on the medium as it is now writes nothing and builds the
\* used_cluster and slot_avail that the first begin built.
C6_BeginIdempotent ==
    (last.op = "begin" /\ last.ret) =>
        \A u \in UBOutcomes :
            LET fb == FreshBegin(u)
            IN  /\ fb.st.wc = 0
                /\ fb.st.mem = mem
                /\ fb.st.used = m_usedCluster
                /\ fb.st.avail = m_slotAvail

(* ---- C7 ---------------------------------------------------------------- *)
\* C7: after every call that returned, each slot number has at most one valid
\* start cluster on the medium and at most one marked in used_cluster.
C7_OneGeneration ==
    m_initDone =>
        \A s \in Slots :
            /\ Cardinality(ValidStarts(Cur, s)) <= 1
            /\ Cardinality(ValidStarts(Cur, s) \cap m_usedCluster) <= 1

\* a rewrite returned: the slot has its one generation
C7_Witness ==
    /\ last.op = "writeSlot"
    /\ last.ret
    /\ last.pre[last.slot].ret
    /\ Cardinality(ValidStarts(Cur, last.slot)) = 1

(* ---- C8 ---------------------------------------------------------------- *)
\* C8: after writeSlot returned ok on a slot that held a value, every cluster
\* of the previous generation has byte 0 = 0x00 and is not marked used.
C8_OldGenerationInvalidated ==
    (last.op = "writeSlot" /\ last.ret /\ last.pre[last.slot].ret) =>
        Invalidated(Cur, last.preChain)

\* the previous generation had more than one cluster
C8_Witness ==
    /\ last.op = "writeSlot"
    /\ last.ret
    /\ last.pre[last.slot].ret
    /\ Cardinality(last.preChain) >= 2

(* ---- C9 ---------------------------------------------------------------- *)
\* C9: after eraseSlot(s) returned ok the slot is not available, readSlot(s)
\* fails and every cluster of its chain has byte 0 = 0x00 and is not marked
\* used; eraseSlot of a slot that holds nothing returns not ok and changes
\* neither the medium nor the index.
C9_Erase ==
    [][\A s \in CallerSlots :
         EraseSlot(s) =>
            /\ last'.ret = ReadAll(Cur, s).ret
            /\ last'.ret =>
                  /\ ~isSlotAvailable(CurNext, s)
                  /\ ~ReadAll(CurNext, s).ret
                  /\ ChainOf(Cur, s) # {}
                  /\ Invalidated(CurNext, ChainOf(Cur, s))
            /\ ~last'.ret =>
                  UNCHANGED << mem, m_usedCluster, m_slotAvail, m_initDone >>]_vars

\* a slot with a chain of more than one cluster was erased
C9_Witness ==
    /\ last.op = "eraseSlot"
    /\ last.ret
    /\ Cardinality(last.preChain) >= 2
    /\ Invalidated(Cur, last.preChain)

(* ---- C10 --------------------------------------------------------------- *)
\* C10: when power loss cut eraseSlot(s) and begin was run, s is not available
\* or still holds its whole previous value; when it is not available no valid
\* cluster carries the slot number s and none is marked used.
C10_EraseCut ==
    BeginAfterCut("eraseSlot") =>
        /\ last.ret
        /\ \/ /\ isSlotAvailable(Cur, intr.slot)
              /\ intr.pre[intr.slot].ret
              /\ ReadAll(Cur, intr.slot) = intr.pre[intr.slot]
           \/ /\ ~isSlotAvailable(Cur, intr.slot)
              /\ ReadAll(Cur, intr.slot) = Empty
              /\ ValidOfSlot(Cur, intr.slot) = {}
              /\ \A c \in m_usedCluster : mem[c * CLUSTER_SIZE] # intr.slot

\* the cut left the tail of a chain behind and begin invalidated it
C10_Witness ==
    /\ BeginAfterCut("eraseSlot")
    /\ ~isSlotAvailable(Cur, intr.slot)
    /\ \E c \in intr.preChain :
          /\ ~IsStart(mem[c * CLUSTER_SIZE + 1])
          /\ mem[c * CLUSTER_SIZE] = 0

(* ---- C11 --------------------------------------------------------------- *)
\* the slot of the call c held a value before the call
Rewrite(c) == c.op = "writeSlot" /\ ~c.lost /\ c.pre[c.slot].ret

\* C11: with PROVISION > 0 and no power loss, writeSlot on a slot that holds L
\* bytes with a new value of the same length L <= PROVISION returns ok.
C11_RewriteWithinProvision ==
    (/\ provision > 0
     /\ cuts = 0
     /\ Rewrite(last)
     /\ Len(last.pre[last.slot].data) = Len(last.data)
     /\ Len(last.data) <= provision) => last.ret

(* ---- C12 --------------------------------------------------------------- *)
\* the clusters whose bit in used_cluster is not set
FreeClusters(st) == Clusters \ st.used

\* the slot holds no data: writeSlot would not overwrite
HoldsNothing(st, slot) == ~findStartCluser(st, slot).ok

\* C12: writeSlot to a slot that holds no data returns ok only if
\* len <= getFree(), and as long as no power was lost at least S_PROVISION / U
\* clusters are free after every call.
C12_ProvisionReserved ==
    [][/\ \A slot \in CallerSlots, data \in Payloads, rnd \in 0 .. MaxRnd :
             (WriteSlot(slot, data, rnd) /\ HoldsNothing(Cur, slot) /\ last'.ret)
                 => Len(data) <= getFree(Cur)
       /\ (m_initDone' /\ cuts' = 0) =>
             Cardinality(FreeClusters(CurNext)) * S_USER_DATA_PER_CLUSTER(crcOn)
                 >= S_PROVISION(crcOn, provision)]_vars

\* a first write was refused although enough clusters for it are free
C12_Witness ==
    /\ provision > 0
    /\ cuts = 0
    /\ last.op = "writeSlot"
    /\ ~last.ret
    /\ HoldsNothing(Cur, last.slot)
    /\ Cardinality(FreeClusters(Cur)) * S_USER_DATA_PER_CLUSTER(crcOn) >= Len(last.data)

(* ---- C13 --------------------------------------------------------------- *)
\* C13: on an initialized store, writeSlot with valid arguments to a slot that
\* holds no data returns ok whenever len <= getFree(), whatever RND_FUNC()
\* returns.
C13_FirstWriteFindsClusters ==
    [][\A slot \in CallerSlots, data \in Payloads, rnd \in 0 .. MaxProbe :
          (/\ WriteSlot(slot, data, rnd)
           /\ HoldsNothing(Cur, slot)
           /\ Len(data) <= getFree(Cur)) => last'.ret]_vars

StoreUnchanged == UNCHANGED << mem, m_usedCluster, m_slotAvail, m_initDone >>

\* the call c was given an argument that is not valid, or was made early
ArgumentError(c) ==
    /\ "early" \in DOMAIN c
    /\ \/ c.early
       \/ /\ c.op = "writeSlot"
          /\ (c.slot \notin Slots \/ c.dataNull \/ c.len < 1 \/ c.len > 256)

\* C15: writeSlot with a slot outside [1, S_LAST_SLOT], len = 0, len > 256 or
\* data = NULL, writeSlot, readSlot and eraseSlot before begin has returned ok,
\* and begin after begin has returned ok all return not ok, write no byte of
\* the medium and leave the index as it was.
C15_ArgumentErrors ==
    [][/\ ArgumentError(last') => (~last'.ret /\ last'.wc = 0 /\ StoreUnchanged)
       /\ (m_initDone /\ last'.op = "begin") =>
             /\ ~last'.ret
             /\ \A u \in UBOutcomes : begin(CurUB(u)).st.wc = 0
             /\ StoreUnchanged]_vars

\* begin was called again on a store that holds a value
C15_Witness ==
    /\ last.op = "begin"
    /\ ~last.ret
    /\ m_initDone
    /\ m_slotAvail # {}

(* ---- C16 --------------------------------------------------------------- *)
\* C16: writeSlot accepts exactly the lengths 1..256, and for each of them and
\* every U a cluster size of 7..256 allows, with or without CRC, it writes
\* ceil(len / U) clusters and stores len - 1 in the length byte of the start
\* cluster.
C16_LengthRange ==
    last.op = "cntCluster" =>
        /\ last.accepted = (last.len \in 1 .. 256)
        /\ last.accepted =>
              /\ last.cnt = (last.len + last.U - 1) \div last.U
              /\ last.lenByte = last.len - 1

ValidOnMedium(st) ==
    {c \in Clusters :
        LET cAddr == c * CLUSTER_SIZE
            U     == S_USER_DATA_PER_CLUSTER(st.crc)
            d     == st.mem[cAddr + 3]
            len   == IF IsStart(st.mem[cAddr + 1]) THEN Min({d + 1, U}) ELSE d
        IN  /\ st.mem[cAddr] \in S_FIRST_SLOT .. S_LAST_SLOT
            /\ st.mem[cAddr + CLUSTER_SIZE - 1] = S_END_BYTE(st.crc)
            /\ st.crc => /\ len <= U
                         /\ st.mem[cAddr + CLUSTER_SIZE - 2] =
                               crc_buf(0, MockReadBuf(st.mem, cAddr, 4 + len))}

\* C18: whenever the store is initialized and no call is running, the clusters
\* with their bit set in m_usedCluster are exactly the valid clusters of the
\* medium.
C18_UsedIsValid ==
    m_initDone => m_usedCluster = ValidOnMedium(Cur)

\* begin after a power loss; a cluster is in use and another one was cleared
C18_Witness ==
    /\ m_initDone
    /\ cuts > 0
    /\ m_usedCluster # {}
    /\ \E c \in Clusters \ m_usedCluster :
          /\ mem[c * CLUSTER_SIZE] = 0
          /\ mem[c * CLUSTER_SIZE + CLUSTER_SIZE - 1] = S_END_BYTE(crcOn)

(* ---- C19 --------------------------------------------------------------- *)
\* PROVISION rounded up to a multiple of U
RoundedUp(n, U) == CHOOSE r \in n .. (n + U - 1) : r % U = 0

\* the clusters the values of the slots of S need: the sum of ceil(len / U)
RECURSIVE RoundedSizes(_, _)
RoundedSizes(st, S) ==
    IF S = {} THEN 0
    ELSE LET s == Min(S)
             U == S_USER_DATA_PER_CLUSTER(st.crc)
             clusters(r) == IF r.ret THEN (Len(r.data) + U - 1) \div U ELSE 0
         IN  clusters(ReadAll(st, s)) + RoundedSizes(st, S \ {s})

\* getFree() as the claim gives it
FreeByClaim(st) ==
    LET U      == S_USER_DATA_PER_CLUSTER(st.crc)
        max0(n) == IF n < 0 THEN 0 ELSE n
    IN  max0(S_CLUSTER_CNT * U - RoundedUp(st.prov, U) - U * RoundedSizes(st, Slots))

\* C19: getUsableSize() = N * U - PROVISION rounded up to a multiple of U;
\* as long as no power was lost, after every call getFree() =
\* max(0, N * U - S_PROVISION - U * sum of ceil(len / U) over the slots that
\* hold a value); a first write that returns ok lowers getFree() by
\* ceil(len / U) * U.
C19_FreeSpace ==
    [][/\ getUsableSize(CurNext) =
             S_CLUSTER_CNT * S_USER_DATA_PER_CLUSTER(crcOn)
                 - RoundedUp(provision, S_USER_DATA_PER_CLUSTER(crcOn))
       /\ (m_initDone' /\ cuts' = 0) => getFree(CurNext) = FreeByClaim(CurNext)
       /\ \A slot \in CallerSlots, data \in Payloads, rnd \in 0 .. MaxRnd :
             (WriteSlot(slot, data, rnd) /\ HoldsNothing(Cur, slot) /\ last'.ret) =>
                 getFree(CurNext) = getFree(Cur)
                     - ((Len(data) + S_USER_DATA_PER_CLUSTER(crcOn) - 1)
                            \div S_USER_DATA_PER_CLUSTER(crcOn))
                       * S_USER_DATA_PER_CLUSTER(crcOn)]_vars

\* two slots hold values, one of more than one cluster, and nothing is free
C19_Witness ==
    /\ provision > 0
    /\ cuts = 0
    /\ m_initDone
    /\ getFree(Cur) = 0
    /\ RoundedSizes(Cur, Slots) >= 3
    /\ Cardinality({s \in Slots : ReadAll(Cur, s).ret}) >= 2

(* ---- C20 --------------------------------------------------------------- *)
\* the bytes of a cluster
ClusterBytes(m, c) == MockReadBuf(m, c * CLUSTER_SIZE, CLUSTER_SIZE)

\* C20: a cluster whose slot number is outside S_FIRST_SLOT .. S_LAST_SLOT when
\* begin is called is not marked used by begin, its slot number is not reported
\* available, and begin leaves its bytes as they were.
C20_NoSlotNotValid ==
    [][last'.op = "begin" =>
          \A c \in Clusters :
              mem[c * CLUSTER_SIZE] \notin Slots =>
                  /\ c \notin m_usedCluster'
                  /\ ~isSlotAvailable(CurNext, mem[c * CLUSTER_SIZE])
                  /\ ClusterBytes(mem', c) = ClusterBytes(mem, c)]_vars

(* ---- C21 --------------------------------------------------------------- *)
\* the store of the next state, where an access outside an array does u
CurNextUB(u) == [CurNext EXCEPT !.ub = u]

\* what begin makes of the medium that a cut at the k-th byte write of the
\* call c left (c found the store st): before the commit the slot reads as c
\* found it, after it the slot reads the new value from a start cluster of the
\* new age and the old chain is invalidated
AfterCut(st, c, k, commit, b) ==
    /\ b.ret
    /\ IF k <= commit
       THEN ReadAll(b.st, c.slot) = c.pre[c.slot]
       ELSE /\ isSlotAvailable(b.st, c.slot)
            /\ ReadAll(b.st, c.slot) = [ret |-> TRUE, data |-> c.data]
            /\ Invalidated(b.st, c.preChain)
            /\ LET fs == findStartCluser(b.st, c.slot)
               IN  /\ fs.ok
                   /\ AgeOf(b.st.mem[fs.startCluster * CLUSTER_SIZE + 1])
                         = NewAgeOf(st, c.slot)

\* C21: when power loss cuts writeSlot(s, new) at or before the write of the
\* end byte of the new start cluster, begin and readSlot(s) give what s held
\* before (nothing, if it held nothing); when it cuts a later write, begin
\* keeps the generation of the newer age (0 after 3), invalidates all clusters
\* of the old chain and readSlot(s) gives new.
C21_CommitPoint ==
    [][(last'.op = "writeSlot" /\ last'.lost) =>
          \A rnd \in 0 .. MaxRnd :
              \A k \in 1 .. writeSlot(Cur, last'.slot, FALSE, last'.data,
                                      Len(last'.data), rnd).st.wc :
                  (mem' = writeSlot(Armed(k), last'.slot, FALSE, last'.data,
                                    Len(last'.data), rnd).st.mem) =>
                      \A u \in UBOutcomes :
                          AfterCut(Cur, last', k,
                                   CommitWrite(Cur, last'.slot, last'.data, rnd),
                                   begin(CurNextUB(u)))]_vars

\* a rewrite of a value of age 3 was cut while it invalidated the old chain:
\* the new start cluster has age 0, the start cluster of the old chain is
\* invalidated and another cluster of it is still valid
C21_Witness ==
    /\ last.op = "writeSlot"
    /\ last.lost
    /\ last.pre[last.slot].ret
    /\ \E c \in ValidStarts(Cur, last.slot) : AgeOf(mem[c * CLUSTER_SIZE + 1]) = 0
    /\ \E c \in last.preChain : mem[c * CLUSTER_SIZE] = 0
    /\ \E c \in last.preChain \cap ValidOfSlot(Cur, last.slot) :
          AgeOf(mem[c * CLUSTER_SIZE + 1]) = 3

(* ---- C22 --------------------------------------------------------------- *)
\* cluster c of the medium m holds what it held in the store st, or what the
\* finished call left in it
CompleteCluster(m, st, fin, c) ==
    \/ ClusterBytes(m, c) = ClusterBytes(st.mem, c)
    \/ ClusterBytes(m, c) = ClusterBytes(fin.mem, c)

\* C22: after each byte write of writeSlot, every cluster whose end byte is
\* S_END_BYTE holds either what it held before the call or what the finished
\* call leaves in it: a valid end byte found in a new cluster is overwritten
\* first, and the end byte is the last byte written to the cluster.
C22_EndByteLast ==
    [][(last'.op = "writeSlot" /\ last'.lost) =>
          \A rnd \in 0 .. MaxRnd :
              \A k \in 1 .. writeSlot(Cur, last'.slot, FALSE, last'.data,
                                      Len(last'.data), rnd).st.wc :
                  (mem' = writeSlot(Armed(k), last'.slot, FALSE, last'.data,
                                    Len(last'.data), rnd).st.mem) =>
                      \A c \in Clusters :
                          mem'[c * CLUSTER_SIZE + CLUSTER_SIZE - 1] = S_END_BYTE(crcOn) =>
                              CompleteCluster(mem', Cur,
                                  writeSlot(Cur, last'.slot, FALSE, last'.data,
                                            Len(last'.data), rnd).st, c)]_vars

\* the cut came while the header was written into a cluster that held an
\* invalidated generation: its end byte is 0x00 and byte 0 is the slot
C22_Witness ==
    /\ last.op = "writeSlot"
    /\ last.lost
    /\ \E c \in Clusters \ last.preChain :
          /\ mem[c * CLUSTER_SIZE + CLUSTER_SIZE - 1] = 0
          /\ mem[c * CLUSTER_SIZE] = last.slot

(* ---- C23 --------------------------------------------------------------- *)
\* newCluster[] of writeSlot, in chain order: the start cluster comes first
NewClusters(st, slot, data, rnd) ==
    AllocLoop(st.used, rnd % S_CLUSTER_CNT,
              cntClusterOf(Len(data), S_USER_DATA_PER_CLUSTER(st.crc)), << >>).newCluster

\* cluster c of the medium m is valid and holds what the finished call leaves
Committed(m, crc, fin, c) ==
    /\ Pass1Valid(m, crc, c)
    /\ ClusterBytes(m, c) = ClusterBytes(fin.mem, c)

\* the medium m during a writeSlot that found the store st, writes the clusters
\* nc and leaves fin: the committed clusters are the end of the chain, and
\* the chain old of the previous generation is as it was until the start
\* cluster is committed
ReverseOrder(m, st, fin, nc, old) ==
    /\ \A i \in 1 .. Len(nc) : \A j \in i .. Len(nc) :
          Committed(m, st.crc, fin, nc[i]) => Committed(m, st.crc, fin, nc[j])
    /\ \A i \in 1 .. (Len(nc) - 1) :
          Committed(m, st.crc, fin, nc[i]) => m[nc[i] * CLUSTER_SIZE + 2] = nc[i + 1]
    /\ (Len(nc) > 0 /\ ~Committed(m, st.crc, fin, nc[1])) =>
          \A c \in old : ClusterBytes(m, c) = ClusterBytes(st.mem, c)

\* C23: after each byte write of writeSlot the new clusters that are valid form
\* the end of the new chain (the start cluster becomes valid last, and its
\* links lead to valid clusters), and no byte of the old chain is written
\* before the start cluster is valid.
C23_ReverseOrder ==
    [][(last'.op = "writeSlot" /\ last'.lost) =>
          \A rnd \in 0 .. MaxRnd :
              \A k \in 1 .. writeSlot(Cur, last'.slot, FALSE, last'.data,
                                      Len(last'.data), rnd).st.wc :
                  (mem' = writeSlot(Armed(k), last'.slot, FALSE, last'.data,
                                    Len(last'.data), rnd).st.mem) =>
                      ReverseOrder(mem', Cur,
                                   writeSlot(Cur, last'.slot, FALSE, last'.data,
                                             Len(last'.data), rnd).st,
                                   NewClusters(Cur, last'.slot, last'.data, rnd),
                                   last'.preChain)]_vars

\* a rewrite with two clusters was cut after the last cluster of the new chain
\* was committed and before the start cluster was: the old chain is whole
C23_Witness ==
    /\ last.op = "writeSlot"
    /\ last.lost
    /\ last.pre[last.slot].ret
    /\ Len(last.data) > S_USER_DATA_PER_CLUSTER(crcOn)
    /\ ValidStarts(Cur, last.slot) \subseteq last.preChain
    /\ last.preChain \subseteq ValidOfSlot(Cur, last.slot)
    /\ \E c \in ValidOfSlot(Cur, last.slot) \ last.preChain :
          IsLast(mem[c * CLUSTER_SIZE + 1])

(* ---- C24 --------------------------------------------------------------- *)
\* the call c is a writeSlot in which a byte write of the driver returned
\* false before the new start cluster was valid
FailedBeforeCommit(c) ==
    "failedAt" \in DOMAIN c /\ c.failedAt <= c.commit

C25_BeginCut ==
    (BeginAfterCut("begin") /\ intr.want.ret) =>
        /\ last.ret
        /\ {s \in Slots : isSlotAvailable(Cur, s)} = intr.want.avail
        /\ \A s \in Slots : ReadAll(Cur, s) = intr.want.reads[s]

(* ---- C26 --------------------------------------------------------------- *)
\* the space the claim credits to a rewrite of a slot that holds oldLen bytes
CreditByClaim(st, oldLen) ==
    Min({RoundedUp(oldLen, S_USER_DATA_PER_CLUSTER(st.crc)),
         S_PROVISION(st.crc, st.prov)})

\* C26: a writeSlot of len bytes on a slot that holds oldLen bytes returns ok
\* exactly if getFree() + min(ceil(oldLen / U) * U, S_PROVISION) >= len.
C26_RewriteCredit ==
    [][(last'.op = "writeSlot" /\ ~last'.lost /\ last'.pre[last'.slot].ret) =>
          (last'.ret <=>
              getFree(Cur) + CreditByClaim(Cur, Len(last'.pre[last'.slot].data))
                  >= Len(last'.data))]_vars

(* ---- C27 --------------------------------------------------------------- *)
\* the clusters from cluster c to a LAST cluster, when every hop lands on a
\* cluster of vs that has the age and is no start cluster and c is followed by
\* left - 1 clusters
RECURSIVE Hops(_, _, _, _, _)
Hops(m, vs, age, c, left) ==
    IF IsLast(m[c * CLUSTER_SIZE + 1]) THEN [ok |-> left = 1, chain |-> {c}]
    ELSE IF left <= 1 THEN [ok |-> FALSE, chain |-> {}]
    ELSE LET add(h) == [ok |-> h.ok, chain |-> IF h.ok THEN h.chain \cup {c} ELSE {}]
             hop(n) ==
                 IF \/ n \notin vs
                    \/ AgeOf(m[n * CLUSTER_SIZE + 1]) # age
                    \/ IsStart(m[n * CLUSTER_SIZE + 1])
                 THEN [ok |-> FALSE, chain |-> {}]
                 ELSE add(Hops(m, vs, age, n, left - 1))
         IN  hop(m[c * CLUSTER_SIZE + 2])

\* the chain of the generation that starts at a valid start cluster
GenChain(st, slot, start) ==
    Hops(st.mem, ValidOfSlot(st, slot), AgeOf(st.mem[start * CLUSTER_SIZE + 1]), start,
         cntClusterOf(st.mem[start * CLUSTER_SIZE + 3] + 1,
                      S_USER_DATA_PER_CLUSTER(st.crc)))

\* the ages follow each other, so that one of them is the newest
NewestAges(ages) == {a \in ages : ((a + 1) % 4) \notin ages}

\* what readSlot gives when the clusters of a chain are the used ones
ValueOf(st, slot, chain) ==
    ReadAll([st EXCEPT !.used = chain, !.avail = {slot}, !.init = TRUE], slot)

\* begin kept the generation with the chain K of slot s
KeptChain(pre, post, s, K) ==
    /\ isSlotAvailable(post, s)
    /\ ReadAll(post, s) = ValueOf(pre, s, K)
    /\ K \subseteq post.used
    /\ Invalidated(post, ValidOfSlot(pre, s) \ K)

\* C27: when the start clusters of the newest age of a slot have no valid chain
\* and a start cluster of an older age has one, begin returns ok, the slot is
\* available and reads the value of an older generation, and every other valid
\* cluster of the slot has byte 0 = 0x00 and is not marked used.
C27_OlderGenerationKept ==
    [][(last'.op = "begin" /\ ~m_initDone) =>
          \A s \in CallerSlots :
              LET starts == ValidStarts(Cur, s)
                  age(c) == AgeOf(mem[c * CLUSTER_SIZE + 1])
                  newest == NewestAges({age(c) : c \in starts})
                  good   == {c \in starts : GenChain(Cur, s, c).ok}
              IN  (/\ Cardinality(newest) = 1
                   /\ \A c \in good : age(c) \notin newest
                   /\ good # {})
                  => /\ last'.ret
                     /\ \E c \in good :
                           KeptChain(Cur, CurNext, s, GenChain(Cur, s, c).chain)]_vars

(* ---- C28 --------------------------------------------------------------- *)
\* the clusters that carry the number of a slot and are marked used
UsedOfSlot(st, slot) == {c \in st.used : st.mem[c * CLUSTER_SIZE] = slot}

SurvivingChain(st, slot) ==
    LET chain(fs) ==
            IF isSlotAvailable(st, slot) /\ fs.ok
            THEN GenChain(st, slot, fs.startCluster).chain
            ELSE {}
    IN  chain(findStartCluser(st, slot))

\* C29: after begin returned ok, every available slot has a surviving chain,
\* every cluster marked used lies on the surviving chain of an available slot,
\* and every cluster that was valid and lies on no surviving chain has byte 0
\* = 0x00 and is not marked used.
C29_OnlySurvivingChains ==
    [][(last'.op = "begin" /\ ~m_initDone /\ last'.ret) =>
          /\ \A s \in Slots :
                isSlotAvailable(CurNext, s) => SurvivingChain(CurNext, s) # {}
          /\ \A c \in Clusters :
                \/ \E s \in Slots : c \in SurvivingChain(CurNext, s)
                \/ /\ c \notin m_usedCluster'
                   /\ Pass1Valid(mem, crcOn, c) => mem'[c * CLUSTER_SIZE] = 0]_vars

(* ---- C30 --------------------------------------------------------------- *)
\* the clusters visited from cluster c along link, up to a LAST cluster, a
\* link that is no cluster, or fuel clusters
RECURSIVE ChainSeq(_, _, _)
ChainSeq(m, c, fuel) ==
    IF c >= S_CLUSTER_CNT \/ fuel = 0 THEN << >>
    ELSE IF IsLast(m[c * CLUSTER_SIZE + 1]) THEN << c >>
    ELSE << c >> \o ChainSeq(m, m[c * CLUSTER_SIZE + 2], fuel - 1)

\* the chain of a slot from its start cluster; empty if it has none
SlotChain(st, slot) ==
    LET chain(fs) ==
            IF fs.ok THEN ChainSeq(st.mem, fs.startCluster, S_CLUSTER_CNT + 1)
            ELSE << >>
    IN  chain(findStartCluser(st, slot))

\* C30: after every call that returned, the chain of each available slot
\* visits pairwise distinct clusters that all carry the number of the slot and
\* one age, and ends at a LAST cluster; the chains of two slots share no
\* cluster.
C30_ChainsWellFormed ==
    m_initDone =>
        LET flags(c) == mem[c * CLUSTER_SIZE + 1]
            wellFormed(s, q) ==
                /\ q # << >>
                /\ \A i, j \in DOMAIN q : q[i] = q[j] => i = j
                /\ \A i \in DOMAIN q :
                      /\ mem[q[i] * CLUSTER_SIZE] = s
                      /\ AgeOf(flags(q[i])) = AgeOf(flags(q[1]))
                /\ IsLast(flags(q[Len(q)]))
            onChain(s) == {SlotChain(Cur, s)[i] : i \in DOMAIN SlotChain(Cur, s)}
        IN  /\ \A s \in Slots :
                  isSlotAvailable(Cur, s) => wellFormed(s, SlotChain(Cur, s))
            /\ \A s, t \in Slots :
                  (s # t /\ isSlotAvailable(Cur, s) /\ isSlotAvailable(Cur, t))
                      => onChain(s) \cap onChain(t) = {}

\* two slots hold values, one of them rewritten and of more than one cluster
C30_Witness ==
    /\ m_initDone
    /\ last.op = "writeSlot"
    /\ \E s, t \in Slots :
          /\ s # t
          /\ isSlotAvailable(Cur, s)
          /\ isSlotAvailable(Cur, t)
          /\ Len(SlotChain(Cur, s)) >= 2
          /\ AgeOf(mem[SlotChain(Cur, s)[1] * CLUSTER_SIZE + 1]) >= 1

(* ---- C31 --------------------------------------------------------------- *)
\* the start clusters that carry a slot number and whose end byte is not
\* S_END_BYTE: begin skips them in its first loop
IncompleteStarts(st, slot) ==
    {c \in Clusters :
        /\ st.mem[c * CLUSTER_SIZE] = slot
        /\ IsStart(st.mem[c * CLUSTER_SIZE + 1])
        /\ st.mem[c * CLUSTER_SIZE + CLUSTER_SIZE - 1] # S_END_BYTE(st.crc)}

\* C31: when a slot has one valid generation and a start cluster of the next
\* age whose end byte is not valid, begin returns ok, keeps the generation and
\* writes 0x00 to byte 0 of the incomplete start cluster.
C31_IncompleteNewer ==
    [][(last'.op = "begin" /\ ~m_initDone) =>
          \A s \in CallerSlots :
              \A g \in ValidStarts(Cur, s) :
                  \A c \in IncompleteStarts(Cur, s) :
                      (/\ ValidStarts(Cur, s) = {g}
                       /\ GenChain(Cur, s, g).ok
                       /\ AgeOf(mem[c * CLUSTER_SIZE + 1])
                             = (AgeOf(mem[g * CLUSTER_SIZE + 1]) + 1) % 4)
                      => /\ last'.ret
                         /\ KeptChain(Cur, CurNext, s, GenChain(Cur, s, g).chain)
                         /\ mem'[c * CLUSTER_SIZE] = 0]_vars

(* ---- C32 --------------------------------------------------------------- *)
\* the ages of the valid start clusters of a slot
StartAges(st, slot) ==
    {AgeOf(st.mem[c * CLUSTER_SIZE + 1]) : c \in ValidStarts(st, slot)}

\* C32: when the valid start clusters of a slot have the ages {0, 2} or {1, 3},
\* no start cluster of the age the table holds for that mask is kept by begin.
C32_GapIsFailure ==
    [][(last'.op = "begin" /\ ~m_initDone /\ last'.ret) =>
          \A s \in CallerSlots :
              StartAges(Cur, s) \in {{0, 2}, {1, 3}} =>
                  \A c \in UsedOfSlot(CurNext, s) :
                      AgeOf(mem'[c * CLUSTER_SIZE + 1]) # OldestOf(StartAges(Cur, s))]_vars

(* ---- C33 --------------------------------------------------------------- *)
\* one, two or three ages that follow each other modulo 4
IsRun(ages) ==
    /\ ages # {}
    /\ Cardinality(ages) <= 3
    /\ Cardinality(NewestAges(ages)) = 1

\* the start cluster begin checks for an age: the highest cluster of that age
StartOfAge(st, slot, age) ==
    Max({c \in ValidStarts(st, slot) : AgeOf(st.mem[c * CLUSTER_SIZE + 1]) = age})

\* C33: when the ages of the valid start clusters of a slot are a run of one,
\* two or three ages modulo 4, the age begin tries first is the last age of the
\* run: the table gives it, and when the chain of its start cluster is valid
\* begin keeps exactly that chain.
C33_NewestFirst ==
    [][(last'.op = "begin" /\ ~m_initDone /\ last'.ret) =>
          \A s \in CallerSlots :
              IsRun(StartAges(Cur, s)) =>
                  \A a \in NewestAges(StartAges(Cur, s)) :
                      /\ OldestOf(StartAges(Cur, s)) = a
                      /\ GenChain(Cur, s, StartOfAge(Cur, s, a)).ok =>
                            UsedOfSlot(CurNext, s)
                                = GenChain(Cur, s, StartOfAge(Cur, s, a)).chain]_vars

\* a slot had start clusters of the ages 3, 0 and 1: begin kept age 1 and
\* cleared the other two
C33_Witness ==
    /\ last.op = "begin"
    /\ last.ret
    /\ \E s \in CallerSlots :
          \E c1, c2, c3 \in Clusters :
              /\ UsedOfSlot(Cur, s) = {c1}
              /\ AgeOf(mem[c1 * CLUSTER_SIZE + 1]) = 1
              /\ mem[c2 * CLUSTER_SIZE] = 0
              /\ AgeOf(mem[c2 * CLUSTER_SIZE + 1]) = 0
              /\ IsStart(mem[c2 * CLUSTER_SIZE + 1])
              /\ mem[c3 * CLUSTER_SIZE] = 0
              /\ AgeOf(mem[c3 * CLUSTER_SIZE + 1]) = 3
              /\ IsStart(mem[c3 * CLUSTER_SIZE + 1])

(* ---- C34 --------------------------------------------------------------- *)
\* C34: nextFreeCluster returns for every start position and every set of used
\* clusters, also for start position 0 with all clusters used.
C34_ProbeReturns ==
    last.op = "nextFreeCluster" => ~last.hang

(* ---- C35 --------------------------------------------------------------- *)
\* the clusters strictly after a start position, in cyclic order; a start
\* position of S_CLUSTER_CNT or more has all clusters after it
RingAfter(start) ==
    IF start >= S_CLUSTER_CNT THEN [i \in 1 .. S_CLUSTER_CNT |-> i - 1]
    ELSE [i \in 1 .. (S_CLUSTER_CNT - 1) |-> (start + i) % S_CLUSTER_CNT]

\* those of them that are not marked used
FreeAfter(used, start) ==
    LET free(c) == c \notin used
    IN  SelectSeq(RingAfter(start), free)

\* C35: a writeSlot that the free space admits, with RND_FUNC() % N as start
\* position, writes its cnt clusters to the first cnt free clusters strictly
\* after the start position in cyclic order; when fewer are free there, it
\* returns not ok and writes nothing.
C35_AllocatedClusters ==
    [][(/\ last'.op = "writeSlot"
        /\ ~last'.lost
        /\ Len(last'.data) <= getFree(Cur)) =>
          \A rnd \in 0 .. MaxProbe :
              LET same(r) == /\ ~r.hang
                             /\ r.ret = last'.ret
                             /\ r.st.mem = mem'
                             /\ r.st.used = m_usedCluster'
                  cnt  == cntClusterOf(Len(last'.data), S_USER_DATA_PER_CLUSTER(crcOn))
                  meets(fr) ==
                      IF Len(fr) >= cnt
                      THEN /\ last'.ret
                           /\ m_usedCluster' \ m_usedCluster = {fr[i] : i \in 1 .. cnt}
                      ELSE /\ ~last'.ret
                           /\ mem' = mem
              IN  same(writeSlot(Cur, last'.slot, FALSE, last'.data,
                                 Len(last'.data), rnd))
                  => meets(FreeAfter(m_usedCluster, rnd % S_CLUSTER_CNT))]_vars

(* ---- C36 --------------------------------------------------------------- *)
\* readSlot's two stop conditions meet: from cluster c with left bytes to
\* copy, U bytes a cluster, the last byte is copied at the cluster that has the
\* LAST flag
RECURSIVE StopsCoincide(_, _, _, _)
StopsCoincide(m, U, c, left) ==
    IF c >= S_CLUSTER_CNT THEN FALSE
    ELSE IF IsLast(m[c * CLUSTER_SIZE + 1]) THEN left <= U
    ELSE IF left <= U THEN FALSE
    ELSE StopsCoincide(m, U, m[c * CLUSTER_SIZE + 2], left - U)

\* C36: readSlot of a slot that has a start cluster, with a buffer of 256
\* bytes, returns ok exactly if the last of the length byte + 1 bytes is copied
\* at the cluster that carries the LAST flag.
C36_ReadStops ==
    m_initDone =>
        \A s \in Slots :
            LET agree(fs) ==
                    fs.ok =>
                        (ReadAll(Cur, s).ret <=>
                            StopsCoincide(mem, S_USER_DATA_PER_CLUSTER(crcOn),
                                          fs.startCluster,
                                          mem[fs.startCluster * CLUSTER_SIZE + 3] + 1))
            IN  agree(findStartCluser(Cur, s))

CrcOverHeld(m, cluster) ==
    LET U       == S_USER_DATA_PER_CLUSTER(TRUE)
        d       == m[cluster * CLUSTER_SIZE + 3]
        isFirst == IsStart(m[cluster * CLUSTER_SIZE + 1])
        len     == IF isFirst \/ d > U THEN (IF d + 1 > U THEN U ELSE d + 1) ELSE d
    IN  crc_buf(0, MockReadBuf(m, cluster * CLUSTER_SIZE, 4 + len))

\* the CRC over all bytes before the CRC byte
CrcOverAll(m, cluster) ==
    crc_buf(0, MockReadBuf(m, cluster * CLUSTER_SIZE, CLUSTER_SIZE - 2))

C39_BitsetsAgree ==
    ~last.lost =>
        \A s \in Slots :
            /\ isSlotAvailable(Cur, s) <=>
                  \E c \in m_usedCluster :
                      /\ mem[c * CLUSTER_SIZE] = s
                      /\ IsStart(mem[c * CLUSTER_SIZE + 1])
            /\ isSlotAvailable(Cur, s) <=> readSlot(Cur, s, FALSE, 256).ret

\* after an eraseSlot that returned ok one slot is available and another, the
\* erased one, is not
C39_Witness ==
    /\ last.op = "eraseSlot"
    /\ last.ret
    /\ ~last.lost
    /\ ~isSlotAvailable(Cur, last.slot)
    /\ \E s \in Slots : isSlotAvailable(Cur, s) /\ readSlot(Cur, s, FALSE, 256).ret

====
